---- MODULE Spec2Model ----
(***************************************************************************)
(* KAPCI WhatsApp agent: the conversation workflow engine                  *)
(* (app/services/workflow_service.py), the keyword classifier              *)
(* (app/services/ai_service.py) and the ticket lifecycle                   *)
(* (app/services/ticket_service.py) over the tables of app/models.         *)
(*                                                                         *)
(* Text is modelled as what the code computes on: a Python str is a        *)
(* sequence of code points (naturals), so that substring tests, lower(),   *)
(* strip(), the character classes of detect_language and the ticket-number *)
(* pattern are computed, not assumed.  The alphabet of the model is ASCII  *)
(* and the Arabic block U+0600..U+06FF.                                    *)
(***************************************************************************)
EXTENDS Integers, Sequences, FiniteSets, TLC

\* Python's None where the other values are strings.
None == "None"

\* None where the other values are text: a sequence no str equals (-1 is no code point).
NoneStr == <<-1>>

(***************************************************************************)
(* str helpers                                                             *)
(***************************************************************************)

\* str.lower() on one code point: A-Z fold to a-z, Arabic letters have no case.
LowerChar(c) ==
  IF c >= 65 /\ c <= 90 THEN c + 32 ELSE c

lower(s) ==
  [i \in 1..Len(s) |-> LowerChar(s[i])]

\* The characters str.strip() removes (space, \t, \n, \v, \f, \r).
IsSpace(c) ==
  c = 32 \/ (c >= 9 /\ c <= 13)

strip(s) ==
  LET keep == {i \in 1..Len(s) : ~IsSpace(s[i])}
  IN  IF keep = {} THEN <<>>
      ELSE LET lo == CHOOSE i \in keep : \A j \in keep : i <= j
               hi == CHOOSE i \in keep : \A j \in keep : i >= j
           IN  SubSeq(s, lo, hi)

\* Python's `keyword in text` for str: keyword occurs as a contiguous substring.
Contains(keyword, text) ==
  \E i \in 0..(Len(text) - Len(keyword)) :
    \A j \in 1..Len(keyword) : text[i + j] = keyword[j]

\* `for keyword in keywords: if keyword in text: ...` finds a match.
AnyKeyword(keywords, text) ==
  \E k \in 1..Len(keywords) : Contains(keywords[k], text)

(***************************************************************************)
(* AIService                                                               *)
(***************************************************************************)

\* AIService.INTENT_KEYWORDS, in the dict's insertion order.
INTENT_KEYWORDS ==
  <<
    [intent |-> "greeting", keywords |-> <<
        <<104, 101, 108, 108, 111>>,  \* "hello"
        <<104, 105>>,  \* "hi"
        <<104, 101, 121>>,  \* "hey"
        <<103, 111, 111, 100, 32, 109, 111, 114, 110, 105, 110, 103>>,  \* "good morning"
        <<103, 111, 111, 100, 32, 101, 118, 101, 110, 105, 110, 103>>,  \* "good evening"
        <<1575, 1604, 1587, 1604, 1575, 1605, 32, 1593, 1604, 1610, 1603, 1605>>,  \* Arabic U+0627 U+0644 U+0633 U+0644 U+0627 U+0645 U+0020 U+0639 U+0644 U+064A U+0643 U+0645
        <<1605, 1585, 1581, 1576, 1575>>,  \* Arabic U+0645 U+0631 U+062D U+0628 U+0627
        <<1575, 1607, 1604, 1575>>,  \* Arabic U+0627 U+0647 U+0644 U+0627
        <<1589, 1576, 1575, 1581, 32, 1575, 1604, 1582, 1610, 1585>>,  \* Arabic U+0635 U+0628 U+0627 U+062D U+0020 U+0627 U+0644 U+062E U+064A U+0631
        <<1605, 1587, 1575, 1569, 32, 1575, 1604, 1582, 1610, 1585>>,  \* Arabic U+0645 U+0633 U+0627 U+0621 U+0020 U+0627 U+0644 U+062E U+064A U+0631
        <<1607, 1604, 1575>>  \* Arabic U+0647 U+0644 U+0627
      >>],
    [intent |-> "new_complaint", keywords |-> <<
        <<99, 111, 109, 112, 108, 97, 105, 110, 116>>,  \* "complaint"
        <<112, 114, 111, 98, 108, 101, 109>>,  \* "problem"
        <<105, 115, 115, 117, 101>>,  \* "issue"
        <<100, 101, 102, 101, 99, 116>>,  \* "defect"
        <<98, 114, 111, 107, 101, 110>>,  \* "broken"
        <<100, 97, 109, 97, 103, 101, 100>>,  \* "damaged"
        <<119, 114, 111, 110, 103>>,  \* "wrong"
        <<1588, 1603, 1608, 1609>>,  \* Arabic U+0634 U+0643 U+0648 U+0649
        <<1605, 1588, 1603, 1604, 1577>>,  \* Arabic U+0645 U+0634 U+0643 U+0644 U+0629
        <<1593, 1591, 1604>>,  \* Arabic U+0639 U+0637 U+0644
        <<1582, 1585, 1575, 1576>>,  \* Arabic U+062E U+0631 U+0627 U+0628
        <<1578, 1575, 1604, 1601>>,  \* Arabic U+062A U+0627 U+0644 U+0641
        <<1605, 1593, 1610, 1576>>,  \* Arabic U+0645 U+0639 U+064A U+0628
        <<1594, 1604, 1591>>,  \* Arabic U+063A U+0644 U+0637
        <<1605, 1588, 32, 1588, 1594, 1575, 1604>>,  \* Arabic U+0645 U+0634 U+0020 U+0634 U+063A U+0627 U+0644
        <<49>>,  \* "1"
        <<111, 110, 101>>,  \* "one"
        <<1608, 1575, 1581, 1583>>  \* Arabic U+0648 U+0627 U+062D U+062F
      >>],
    [intent |-> "check_status", keywords |-> <<
        <<115, 116, 97, 116, 117, 115>>,  \* "status"
        <<116, 114, 97, 99, 107>>,  \* "track"
        <<102, 111, 108, 108, 111, 119, 32, 117, 112>>,  \* "follow up"
        <<119, 104, 101, 114, 101>>,  \* "where"
        <<99, 104, 101, 99, 107>>,  \* "check"
        <<1605, 1578, 1575, 1576, 1593, 1577>>,  \* Arabic U+0645 U+062A U+0627 U+0628 U+0639 U+0629
        <<1581, 1575, 1604, 1577>>,  \* Arabic U+062D U+0627 U+0644 U+0629
        <<1578, 1578, 1576, 1593>>,  \* Arabic U+062A U+062A U+0628 U+0639
        <<1601, 1610, 1606>>,  \* Arabic U+0641 U+064A U+0646
        <<1608, 1589, 1604, 1578, 32, 1601, 1610, 1606>>,  \* Arabic U+0648 U+0635 U+0644 U+062A U+0020 U+0641 U+064A U+0646
        <<50>>,  \* "2"
        <<116, 119, 111>>,  \* "two"
        <<1575, 1578, 1606, 1610, 1606>>  \* Arabic U+0627 U+062A U+0646 U+064A U+0646
      >>],
    [intent |-> "provide_info", keywords |-> <<>>],
    [intent |-> "send_photo", keywords |-> <<
        <<112, 104, 111, 116, 111>>,  \* "photo"
        <<105, 109, 97, 103, 101>>,  \* "image"
        <<112, 105, 99, 116, 117, 114, 101>>,  \* "picture"
        <<97, 116, 116, 97, 99, 104, 101, 100>>,  \* "attached"
        <<1589, 1608, 1585, 1577>>,  \* Arabic U+0635 U+0648 U+0631 U+0629
        <<1589, 1608, 1585>>  \* Arabic U+0635 U+0648 U+0631
      >>],
    [intent |-> "confirm_yes", keywords |-> <<
        <<121, 101, 115>>,  \* "yes"
        <<121, 101, 97, 104>>,  \* "yeah"
        <<121, 101, 112>>,  \* "yep"
        <<111, 107>>,  \* "ok"
        <<111, 107, 97, 121>>,  \* "okay"
        <<99, 111, 114, 114, 101, 99, 116>>,  \* "correct"
        <<114, 105, 103, 104, 116>>,  \* "right"
        <<99, 111, 110, 102, 105, 114, 109>>,  \* "confirm"
        <<115, 117, 114, 101>>,  \* "sure"
        <<1606, 1593, 1605>>,  \* Arabic U+0646 U+0639 U+0645
        <<1575, 1607>>,  \* Arabic U+0627 U+0647
        <<1575, 1610, 1607>>,  \* Arabic U+0627 U+064A U+0647
        <<1575, 1610, 1608, 1607>>,  \* Arabic U+0627 U+064A U+0648 U+0647
        <<1589, 1581>>,  \* Arabic U+0635 U+062D
        <<1578, 1605, 1575, 1605>>,  \* Arabic U+062A U+0645 U+0627 U+0645
        <<1605, 1608, 1575, 1601, 1602>>,  \* Arabic U+0645 U+0648 U+0627 U+0641 U+0642
        <<1575, 1603, 1610, 1583>>,  \* Arabic U+0627 U+0643 U+064A U+062F
        <<1605, 1575, 1588, 1610>>  \* Arabic U+0645 U+0627 U+0634 U+064A
      >>],
    [intent |-> "confirm_no", keywords |-> <<
        <<110, 111>>,  \* "no"
        <<110, 111, 112, 101>>,  \* "nope"
        <<119, 114, 111, 110, 103>>,  \* "wrong"
        <<105, 110, 99, 111, 114, 114, 101, 99, 116>>,  \* "incorrect"
        <<99, 104, 97, 110, 103, 101>>,  \* "change"
        <<101, 100, 105, 116>>,  \* "edit"
        <<1604, 1575>>,  \* Arabic U+0644 U+0627
        <<1604, 1571>>,  \* Arabic U+0644 U+0623
        <<1594, 1604, 1591>>,  \* Arabic U+063A U+0644 U+0637
        <<1605, 1588, 32, 1589, 1581>>,  \* Arabic U+0645 U+0634 U+0020 U+0635 U+062D
        <<1578, 1593, 1583, 1610, 1604>>,  \* Arabic U+062A U+0639 U+062F U+064A U+0644
        <<1594, 1610, 1585>>  \* Arabic U+063A U+064A U+0631
      >>],
    [intent |-> "skip", keywords |-> <<
        <<115, 107, 105, 112>>,  \* "skip"
        <<110, 111, 32, 112, 104, 111, 116, 111>>,  \* "no photo"
        <<110, 111, 32, 112, 104, 111, 116, 111, 115>>,  \* "no photos"
        <<110, 111, 110, 101>>,  \* "none"
        <<110, 111, 116, 104, 105, 110, 103>>,  \* "nothing"
        <<100, 111, 110, 101>>,  \* "done"
        <<1578, 1582, 1591, 1610>>,  \* Arabic U+062A U+062E U+0637 U+064A
        <<1605, 1601, 1610, 1588>>,  \* Arabic U+0645 U+0641 U+064A U+0634
        <<1578, 1605>>,  \* Arabic U+062A U+0645
        <<1576, 1583, 1608, 1606>>,  \* Arabic U+0628 U+062F U+0648 U+0646
        <<1604, 1575, 32, 1589, 1608, 1585>>,  \* Arabic U+0644 U+0627 U+0020 U+0635 U+0648 U+0631
        <<1605, 1588, 32, 1607, 1576, 1593, 1578>>  \* Arabic U+0645 U+0634 U+0020 U+0647 U+0628 U+0639 U+062A
      >>],
    [intent |-> "cancel", keywords |-> <<
        <<99, 97, 110, 99, 101, 108>>,  \* "cancel"
        <<115, 116, 111, 112>>,  \* "stop"
        <<113, 117, 105, 116>>,  \* "quit"
        <<101, 120, 105, 116>>,  \* "exit"
        <<98, 121, 101>>,  \* "bye"
        <<1575, 1604, 1594, 1575, 1569>>,  \* Arabic U+0627 U+0644 U+063A U+0627 U+0621
        <<1575, 1604, 1594, 1610>>,  \* Arabic U+0627 U+0644 U+063A U+064A
        <<1608, 1602, 1601>>,  \* Arabic U+0648 U+0642 U+0641
        <<1582, 1604, 1575, 1589>>,  \* Arabic U+062E U+0644 U+0627 U+0635
        <<1605, 1593, 32, 1575, 1604, 1587, 1604, 1575, 1605, 1577>>  \* Arabic U+0645 U+0639 U+0020 U+0627 U+0644 U+0633 U+0644 U+0627 U+0645 U+0629
      >>],
    [intent |-> "help", keywords |-> <<
        <<104, 101, 108, 112>>,  \* "help"
        <<97, 115, 115, 105, 115, 116>>,  \* "assist"
        <<115, 117, 112, 112, 111, 114, 116>>,  \* "support"
        <<104, 111, 119>>,  \* "how"
        <<1605, 1587, 1575, 1593, 1583, 1577>>,  \* Arabic U+0645 U+0633 U+0627 U+0639 U+062F U+0629
        <<1587, 1575, 1593, 1583, 1606, 1610>>,  \* Arabic U+0633 U+0627 U+0639 U+062F U+0646 U+064A
        <<1575, 1586, 1575, 1610>>,  \* Arabic U+0627 U+0632 U+0627 U+064A
        <<1603, 1610, 1601>>  \* Arabic U+0643 U+064A U+0641
      >>],
    [intent |-> "thanks", keywords |-> <<
        <<116, 104, 97, 110, 107, 115>>,  \* "thanks"
        <<116, 104, 97, 110, 107, 32, 121, 111, 117>>,  \* "thank you"
        <<116, 104, 120>>,  \* "thx"
        <<1588, 1603, 1585, 1575>>,  \* Arabic U+0634 U+0643 U+0631 U+0627
        <<1605, 1578, 1588, 1603, 1585>>  \* Arabic U+0645 U+062A U+0634 U+0643 U+0631
      >>]
  >>

\* The general classification loop: the first intent, in table order, one of
\* whose keywords occurs in the text; 'unknown' when none does.
RECURSIVE GeneralIntent(_, _)
GeneralIntent(i, message_lower) ==
  IF i > Len(INTENT_KEYWORDS) THEN "unknown"
  ELSE IF AnyKeyword(INTENT_KEYWORDS[i].keywords, message_lower)
       THEN INTENT_KEYWORDS[i].intent
       ELSE GeneralIntent(i + 1, message_lower)

KeywordsOf(intent) ==
  LET i == CHOOSE k \in 1..Len(INTENT_KEYWORDS) : INTENT_KEYWORDS[k].intent = intent
  IN  INTENT_KEYWORDS[i].keywords

\* classify_intent, the confirmation step
\* (variant: the no-keywords are tried before the yes-keywords)
ConfirmationIntentNoFirst(message_lower) ==
  IF AnyKeyword(KeywordsOf("confirm_no"), message_lower) THEN "confirm_no"
  ELSE IF AnyKeyword(KeywordsOf("confirm_yes"), message_lower) THEN "confirm_yes"
  ELSE "unknown"

ConfirmationIntent(message_lower) ==
  IF AnyKeyword(KeywordsOf("confirm_yes"), message_lower) THEN "confirm_yes"
  ELSE IF AnyKeyword(KeywordsOf("confirm_no"), message_lower) THEN "confirm_no"
  ELSE "unknown"

\* classify_intent(message, current_step)
\* (variant: the step is not looked at, the keywords decide)
classify_intent_by_keywords(message, current_step) ==
  GeneralIntent(1, strip(lower(message)))

classify_intent(message, current_step) ==
  LET message_lower == strip(lower(message))
  IN  IF current_step \in {"collecting_product", "collecting_issue", "collecting_name",
                           "collecting_purchase_date", "collecting_quantity"}
        THEN "provide_info"
      ELSE IF current_step = "collecting_photos"
        THEN IF AnyKeyword(KeywordsOf("skip"), message_lower)
               THEN "skip" ELSE "provide_info"
      ELSE IF current_step = "confirming_data"
        THEN ConfirmationIntent(message_lower)
      ELSE GeneralIntent(1, message_lower)

\* \d of a str pattern: a Unicode decimal digit; in the model's alphabet these are
\* ASCII 0-9, Arabic-Indic U+0660..0669 and extended Arabic-Indic U+06F0..06F9.
IsDigit(c) ==
  \/ c >= 48 /\ c <= 57
  \/ c >= 1632 /\ c <= 1641
  \/ c >= 1776 /\ c <= 1785

\* ENTITY_PATTERNS['ticket_number'] = r'TKT-\d{4}-\d{5}' matches at offset i.
TicketPatternAt(message, i) ==
  /\ i + 14 <= Len(message)
  /\ message[i + 1] = 84 /\ message[i + 2] = 75 /\ message[i + 3] = 84
  /\ message[i + 4] = 45
  /\ \A j \in 5..8 : IsDigit(message[i + j])
  /\ message[i + 9] = 45
  /\ \A j \in 10..14 : IsDigit(message[i + j])

\* extract_entities: re.search returns the leftmost match.  Only the
\* ticket_number entity is read by the orchestrator (_handle_status_check).
extract_entities(message) ==
  LET hits == {i \in 0..Len(message) : TicketPatternAt(message, i)}
  IN  IF hits = {} THEN [ticket_number |-> NoneStr]
      ELSE LET i == CHOOSE h \in hits : \A g \in hits : h <= g
           IN  [ticket_number |-> SubSeq(message, i + 1, i + 14)]

IsArabicChar(c) ==
  c >= 1536 /\ c <= 1791

IsEnglishChar(c) ==
  (c >= 97 /\ c <= 122) \/ (c >= 65 /\ c <= 90)

detect_language(message) ==
  LET arabic_chars == Cardinality({i \in 1..Len(message) : IsArabicChar(message[i])})
      english_chars == Cardinality({i \in 1..Len(message) : IsEnglishChar(message[i])})
  IN  IF arabic_chars > english_chars THEN "ar" ELSE "en"

\* The local table of suggest_issue_category, in insertion order.
categories ==
  <<
    [category |-> "quality", keywords |-> <<
        <<113, 117, 97, 108, 105, 116, 121>>,  \* "quality"
        <<100, 101, 102, 101, 99, 116>>,  \* "defect"
        <<98, 114, 111, 107, 101, 110>>,  \* "broken"
        <<100, 97, 109, 97, 103, 101, 100>>,  \* "damaged"
        <<1580, 1608, 1583, 1577>>,  \* Arabic U+062C U+0648 U+062F U+0629
        <<1605, 1593, 1610, 1576>>,  \* Arabic U+0645 U+0639 U+064A U+0628
        <<1605, 1603, 1587, 1608, 1585>>  \* Arabic U+0645 U+0643 U+0633 U+0648 U+0631
      >>],
    [category |-> "wrong_product", keywords |-> <<
        <<119, 114, 111, 110, 103>>,  \* "wrong"
        <<100, 105, 102, 102, 101, 114, 101, 110, 116>>,  \* "different"
        <<110, 111, 116, 32, 119, 104, 97, 116>>,  \* "not what"
        <<1594, 1604, 1591>>,  \* Arabic U+063A U+0644 U+0637
        <<1605, 1582, 1578, 1604, 1601>>  \* Arabic U+0645 U+062E U+062A U+0644 U+0641
      >>],
    [category |-> "missing_parts", keywords |-> <<
        <<109, 105, 115, 115, 105, 110, 103>>,  \* "missing"
        <<105, 110, 99, 111, 109, 112, 108, 101, 116, 101>>,  \* "incomplete"
        <<1606, 1575, 1602, 1589>>,  \* Arabic U+0646 U+0627 U+0642 U+0635
        <<1605, 1588, 32, 1603, 1575, 1605, 1604>>  \* Arabic U+0645 U+0634 U+0020 U+0643 U+0627 U+0645 U+0644
      >>],
    [category |-> "not_working", keywords |-> <<
        <<110, 111, 116, 32, 119, 111, 114, 107, 105, 110, 103>>,  \* "not working"
        <<100, 111, 101, 115, 110, 116, 32, 119, 111, 114, 107>>,  \* "doesnt work"
        <<1605, 1588, 32, 1588, 1594, 1575, 1604>>,  \* Arabic U+0645 U+0634 U+0020 U+0634 U+063A U+0627 U+0644
        <<1605, 1588, 32, 1576, 1610, 1588, 1578, 1594, 1604>>  \* Arabic U+0645 U+0634 U+0020 U+0628 U+064A U+0634 U+062A U+063A U+0644
      >>],
    [category |-> "expired", keywords |-> <<
        <<101, 120, 112, 105, 114, 101, 100>>,  \* "expired"
        <<111, 108, 100>>,  \* "old"
        <<1605, 1606, 1578, 1607, 1610>>,  \* Arabic U+0645 U+0646 U+062A U+0647 U+064A
        <<1602, 1583, 1610, 1605>>  \* Arabic U+0642 U+062F U+064A U+0645
      >>],
    [category |-> "packaging", keywords |-> <<
        <<112, 97, 99, 107, 97, 103, 105, 110, 103>>,  \* "packaging"
        <<98, 111, 120>>,  \* "box"
        <<1578, 1594, 1604, 1610, 1601>>,  \* Arabic U+062A U+063A U+0644 U+064A U+0641
        <<1593, 1604, 1576, 1577>>  \* Arabic U+0639 U+0644 U+0628 U+0629
      >>]
  >>

RECURSIVE CategoryFrom(_, _)
CategoryFrom(i, desc_lower) ==
  IF i > Len(categories) THEN "other"
  ELSE IF AnyKeyword(categories[i].keywords, desc_lower)
       THEN categories[i].category
       ELSE CategoryFrom(i + 1, desc_lower)

suggest_issue_category(description) ==
  CategoryFrom(1, lower(description))

(***************************************************************************)
(* Values                                                                  *)
(*                                                                         *)
(* None is "None" where the other values are strings, 0 where they are     *)
(* row ids (ids start at 1) and NoneStr where they are text.               *)
(***************************************************************************)

\* Python truthiness of an Optional[str]: None and '' are falsy.
Truthy(text) ==
  text # NoneStr /\ text # <<>>

\* ConversationStep
IDLE == "idle"
COLLECTING_PRODUCT == "collecting_product"
COLLECTING_ISSUE == "collecting_issue"
COLLECTING_PHOTOS == "collecting_photos"
CONFIRMING_DATA == "confirming_data"

ConversationStep ==
  {IDLE, "greeting", "collecting_name", COLLECTING_PRODUCT, "collecting_purchase_date",
   "collecting_quantity", COLLECTING_ISSUE, COLLECTING_PHOTOS, CONFIRMING_DATA,
   "awaiting_response"}

\* TicketStatus
PENDING_REVIEW == "pending_review"
APPROVED == "approved"
REJECTED == "rejected"
PENDING_FINANCE == "pending_finance"
FINANCE_APPROVED == "finance_approved"
PENDING_INVENTORY == "pending_inventory"
INVENTORY_PREPARED == "inventory_prepared"
COMPLETED == "completed"

TicketStatus ==
  {"pending_data", PENDING_REVIEW, "under_review", APPROVED, REJECTED, PENDING_FINANCE,
   FINANCE_APPROVED, PENDING_INVENTORY, INVENTORY_PREPARED, "in_delivery", COMPLETED,
   "cancelled"}

\* CompensationType
REFUND == "refund"
REPLACEMENT == "replacement"

(***************************************************************************)
(* dict helpers (collected_data and the data argument of create_ticket)    *)
(***************************************************************************)

EmptyDict == [k \in {} |-> None]

\* d[key] = value
DictSet(d, key, value) ==
  (key :> value) @@ d

\* d.get(key, default)
DictGet(d, key, default) ==
  IF key \in DOMAIN d THEN d[key] ELSE default

(***************************************************************************)
(* MessageTemplates: a rendered template is the template's key, the        *)
(* language it was resolved in and the values formatted into it; a         *)
(* response is the sequence of its rendered parts (str concatenation).     *)
(***************************************************************************)

\* TEMPLATE.get(lang, TEMPLATE['ar'])
TemplateLang(lang) ==
  IF lang \in {"ar", "en"} THEN lang ELSE "ar"

Rendered(key, lang) ==
  [key |-> key, lang |-> TemplateLang(lang), ticket_number |-> NoneStr,
   product |-> NoneStr, issue |-> NoneStr, reason |-> NoneStr,
   status |-> "None", extra_info |-> "None"]

\* A text that is no template: an error string of the service or of a route.
Literal(text) ==
  <<[Rendered(text, "ar") EXCEPT !.lang = "None"]>>

get_greeting(lang) == <<Rendered("GREETING", lang)>>

get_ask_product(lang) == <<Rendered("ASK_PRODUCT", lang)>>

get_ask_issue(lang) == <<Rendered("ASK_ISSUE", lang)>>

get_ask_photos(lang) == <<Rendered("ASK_PHOTOS", lang)>>

get_confirm_data(product, issue, lang) ==
  <<[Rendered("CONFIRM_DATA", lang) EXCEPT !.product = product, !.issue = issue]>>

get_confirm_prompt(lang) == <<Rendered("CONFIRM_PROMPT", lang)>>

get_ticket_created(ticket_number, lang) ==
  <<[Rendered("TICKET_CREATED", lang) EXCEPT !.ticket_number = ticket_number]>>

\* created_date is left out: the model keeps no clock.
get_ticket_status(ticket, lang) ==
  <<[Rendered("TICKET_STATUS", lang) EXCEPT
       !.ticket_number = ticket.ticket_number,
       !.status = ticket.status,
       !.product = IF Truthy(ticket.product_name) THEN ticket.product_name ELSE <<45>>,
       !.extra_info = IF ticket.compensation_type \in {REFUND, REPLACEMENT}
                        THEN ticket.compensation_type ELSE "None"]>>

get_no_tickets(lang) == <<Rendered("NO_TICKETS", lang)>>

get_unknown(lang) == <<Rendered("UNKNOWN", lang)>>

get_help(lang) == <<Rendered("HELP", lang)>>

get_thanks_response(lang) == <<Rendered("THANKS_RESPONSE", lang)>>

get_cancelled(lang) == <<Rendered("CANCELLED", lang)>>

get_restart(lang) == <<Rendered("RESTART", lang)>>

\* (variant of get_ticket_rejected: the reason is left out of the message)
get_ticket_rejected_unexplained(ticket_number, reason, lang) ==
  <<[Rendered("TICKET_REJECTED", lang) EXCEPT !.ticket_number = ticket_number]>>

get_ticket_rejected(ticket_number, reason, lang) ==
  <<[Rendered("TICKET_REJECTED", lang) EXCEPT
       !.ticket_number = ticket_number, !.reason = reason]>>

get_ticket_approved_refund(ticket_number, lang) ==
  <<[Rendered("TICKET_APPROVED_REFUND", lang) EXCEPT !.ticket_number = ticket_number]>>

get_ticket_approved_replacement(ticket_number, lang) ==
  <<[Rendered("TICKET_APPROVED_REPLACEMENT", lang) EXCEPT !.ticket_number = ticket_number]>>

(***************************************************************************)
(* The store (app/models).  A table is the sequence of its rows in         *)
(* insertion order and a row's id is its index.  The two audit tables,     *)
(* conversations and ticket_status_history, are append-only and no         *)
(* operation of the services reads them: the state keeps their row counts  *)
(* and `last` keeps the rows the latest operation appended.  The tables    *)
(* hold what has been committed; _log_status_change only adds its row to   *)
(* the session, and the row reaches the table with the session's next      *)
(* commit, or never if the session ends first.                             *)
(***************************************************************************)
VARIABLES
  customers,            \* Customer rows
  conversation_states,  \* ConversationState rows
  tickets,              \* Ticket rows
  technicians,          \* Technician rows, by id
  n_conversations,      \* number of Conversation rows
  n_status_history,     \* number of TicketStatusHistory rows
  n_session_history,    \* TicketStatusHistory rows added to the session, not committed
  n_lost_history,       \* TicketStatusHistory rows of sessions that ended before a commit
  requests,             \* the requests being handled: what each has read so far
  last                  \* the latest operation: its call, its result, the rows it appended

vars ==
  <<customers, conversation_states, tickets, technicians,
    n_conversations, n_status_history, n_session_history, n_lost_history, requests, last>>

(***************************************************************************)
(* Bounds of the model                                                     *)
(***************************************************************************)

\* No inbound message is taken once the conversations table holds this many rows.
MaxConversations == 12

\* No ticket-service operation is taken that could bring the rows logged for
\* the history table to more than this.
MaxStatusHistory == 4

\* A direct assignment is only taken to a technician whose workload is below this.
MaxLoad == 3

(***************************************************************************)
(* Rows                                                                    *)
(***************************************************************************)

\* Customer(phone_number, customer_name, has_kapci_account, preferred_language)
Customer(phone, name, has_kapci_account, preferred_language) ==
  [phone_number |-> phone, customer_name |-> name,
   has_kapci_account |-> has_kapci_account, preferred_language |-> preferred_language]

\* ConversationState(customer_id, current_step, collected_data); no ticket yet.
ConversationState(customer_id, current_step, collected_data) ==
  [customer_id |-> customer_id, current_step |-> current_step,
   current_ticket_id |-> 0, collected_data |-> collected_data]

\* ConversationState.reset()
reset(state) ==
  [state EXCEPT !.current_step = IDLE, !.current_ticket_id = 0,
                !.collected_data = EmptyDict]

\* Conversation(customer_id, direction, content, message_type)
Conversation(customer_id, direction, content, message_type) ==
  [customer_id |-> customer_id, direction |-> direction,
   content |-> content, message_type |-> message_type]

\* TicketStatusHistory(ticket_id, old_status, new_status, changed_by, reason)
TicketStatusHistory(ticket_id, old_status, new_status, changed_by, reason) ==
  [ticket_id |-> ticket_id, old_status |-> old_status, new_status |-> new_status,
   changed_by |-> changed_by, reason |-> reason]

\* Technician(name, is_active, max_workload), current_workload default 0
Technician(name, is_active, max_workload) ==
  [name |-> name, is_active |-> is_active,
   current_workload |-> 0, max_workload |-> max_workload]

\* Ticket.generate_ticket_number(): f"TKT-{year}-{random_part}".  The year is
\* the clock's; the model runs within one year.
YearDigits == <<50, 48, 50, 54>>

generate_ticket_number(random_part) ==
  <<84, 75, 84, 45>> \o YearDigits \o <<45>> \o random_part

\* The values random.choices(string.digits, k=5) takes in the model.
RandomParts ==
  {<<48, 48, 48, 48, 49>>, <<48, 48, 48, 48, 50>>}

(***************************************************************************)
(* TicketService.  An operation maps the store's view                      *)
(* db = [tickets, technicians, status_history, committed, flushed]         *)
(* to the view after it.  status_history: the rows the operation added to  *)
(* the session so far; committed: how many of them a commit has written;   *)
(* flushed: the operation has committed, so that what the session held     *)
(* before it is written too.                                               *)
(***************************************************************************)

\* The view an operation starts from.
StoreView(tks, techs) ==
  [tickets |-> tks, technicians |-> techs, status_history |-> <<>>,
   committed |-> 0, flushed |-> FALSE]

\* db.session.commit()
session_commit(db) ==
  [db EXCEPT !.committed = Len(db.status_history), !.flushed = TRUE]

\* Ticket.query.get(ticket_id) finds a row.
TicketExists(db, ticket_id) ==
  ticket_id \in 1..Len(db.tickets)

\* _log_status_change
log_status_change(db, ticket_id, old_status, new_status, changed_by, reason) ==
  [db EXCEPT !.status_history =
     Append(@, TicketStatusHistory(ticket_id, old_status, new_status, changed_by, reason))]

\* The rows of the auto-assignment query: active, below their max_workload.
\* (variant: every active row, whatever its workload)
AutoAssignableActive(techs) ==
  {t \in DOMAIN techs : techs[t].is_active}

AutoAssignable(techs) ==
  {t \in DOMAIN techs :
     techs[t].is_active /\ techs[t].current_workload < techs[t].max_workload}

\* What .order_by(current_workload.asc()).first() can return: a row of least
\* workload (rows of equal workload come in the store's order), 0 for no row.
\* (variant: the query has no order_by, any of its rows can come first)
AutoFirstUnordered(techs) ==
  IF AutoAssignable(techs) = {} THEN {0}
  ELSE AutoAssignable(techs)

AutoFirst(techs) ==
  IF AutoAssignable(techs) = {} THEN {0}
  ELSE {t \in AutoAssignable(techs) :
          \A u \in AutoAssignable(techs) :
            techs[t].current_workload <= techs[u].current_workload}

\* assign_technician(ticket_id, technician_id); first: the row the
\* auto-assignment query returns.  result: the ticket's id, 0 for None.
\* (variant: the ticket is assigned, the technician's workload is left as it was)
assign_without_increment(db, ticket_id, technician_id, first) ==
  IF ~TicketExists(db, ticket_id) THEN [db |-> db, result |-> 0]
  ELSE
    LET technician ==
          IF technician_id # 0
            THEN IF technician_id \in DOMAIN db.technicians THEN technician_id ELSE 0
            ELSE first
    IN  IF technician # 0
          THEN [db |-> log_status_change(
                         session_commit(
                           [db EXCEPT
                              !.tickets[ticket_id].assigned_technician_id = technician]),
                         ticket_id, "None", "None", "System", "Assigned to technician"),
                result |-> ticket_id]
          ELSE [db |-> db, result |-> ticket_id]

assign_technician(db, ticket_id, technician_id, first) ==
  IF ~TicketExists(db, ticket_id) THEN [db |-> db, result |-> 0]
  ELSE
    LET technician ==
          IF technician_id # 0
            THEN IF technician_id \in DOMAIN db.technicians THEN technician_id ELSE 0
            ELSE first
    IN  IF technician # 0
          THEN [db |-> log_status_change(
                         session_commit(
                           [db EXCEPT
                              !.tickets[ticket_id].assigned_technician_id = technician,
                              !.technicians[technician].current_workload = @ + 1]),
                         ticket_id, "None", "None", "System", "Assigned to technician"),
                result |-> ticket_id]
          ELSE [db |-> db, result |-> ticket_id]

\* Ticket(...) as create_ticket builds it from data; the columns it does not
\* set take their defaults.
\* (variant: the photos of data are not copied)
TicketWithoutPhotos(ticket_number, customer_id, data) ==
  [ticket_number |-> ticket_number,
   customer_id |-> customer_id,
   product_name |-> DictGet(data, "product_name", NoneStr),
   issue_description |-> DictGet(data, "issue_description", NoneStr),
   issue_category |-> DictGet(data, "issue_category", "None"),
   photos |-> <<>>,
   status |-> PENDING_REVIEW,
   assigned_technician_id |-> 0,
   technical_decision |-> "pending",
   technical_notes |-> NoneStr,
   compensation_type |-> "None",
   sales_order_number |-> "None",
   replacement_tracking |-> "None",
   completed_at |-> "None"]

Ticket(ticket_number, customer_id, data) ==
  [ticket_number |-> ticket_number,
   customer_id |-> customer_id,
   product_name |-> DictGet(data, "product_name", NoneStr),
   issue_description |-> DictGet(data, "issue_description", NoneStr),
   issue_category |-> DictGet(data, "issue_category", "None"),
   photos |-> DictGet(data, "photos", <<>>),
   status |-> PENDING_REVIEW,
   assigned_technician_id |-> 0,
   technical_decision |-> "pending",
   technical_notes |-> NoneStr,
   compensation_type |-> "None",
   sales_order_number |-> "None",
   replacement_tracking |-> "None",
   completed_at |-> "None"]

\* tickets.ticket_number is unique: the INSERT of a second row with the number
\* fails at commit (IntegrityError).
\* (variant: the column is not unique, no INSERT fails)
NumberNeverTaken(db, ticket_number) ==
  FALSE

NumberTaken(db, ticket_number) ==
  \E i \in 1..Len(db.tickets) : db.tickets[i].ticket_number = ticket_number

\* create_ticket(customer_id, data); raised: the commit of the new row failed.
create_ticket(db, customer_id, data, ticket_number, first) ==
  IF NumberTaken(db, ticket_number)
    THEN [db |-> db, result |-> 0, raised |-> TRUE]
  ELSE
    LET id == Len(db.tickets) + 1
        added == session_commit(
                   [db EXCEPT !.tickets = Append(@, Ticket(ticket_number, customer_id, data))])
        logged == log_status_change(added, id, "None", PENDING_REVIEW, "System",
                                    "Ticket created")
    IN  [db |-> assign_technician(logged, id, 0, first).db,
         result |-> id, raised |-> FALSE]

\* ticket.customer: the Customer row of ticket.customer_id, 0 when there is none.
CustomerOf(custs, ticket) ==
  IF ticket.customer_id \in 1..Len(custs) THEN ticket.customer_id ELSE 0

\* route_to_compensation(ticket_id)
\* (variant: every approved ticket is routed to Inventory)
route_to_inventory(db, custs, ticket_id) ==
  IF ~TicketExists(db, ticket_id) THEN [db |-> db, result |-> 0]
  ELSE [db |-> session_commit(log_status_change(
                 [db EXCEPT !.tickets[ticket_id].compensation_type = REPLACEMENT,
                            !.tickets[ticket_id].status = PENDING_INVENTORY],
                 ticket_id, APPROVED, PENDING_INVENTORY, "System",
                 "Routed to Inventory for replacement")),
        result |-> ticket_id]

route_to_compensation(db, custs, ticket_id) ==
  IF ~TicketExists(db, ticket_id) THEN [db |-> db, result |-> 0]
  ELSE
    LET customer == CustomerOf(custs, db.tickets[ticket_id])
    IN  IF customer # 0 /\ custs[customer].has_kapci_account
          THEN [db |-> session_commit(log_status_change(
                         [db EXCEPT !.tickets[ticket_id].compensation_type = REFUND,
                                    !.tickets[ticket_id].status = PENDING_FINANCE],
                         ticket_id, APPROVED, PENDING_FINANCE, "System",
                         "Routed to Finance for refund")),
                result |-> ticket_id]
          ELSE [db |-> session_commit(log_status_change(
                         [db EXCEPT !.tickets[ticket_id].compensation_type = REPLACEMENT,
                                    !.tickets[ticket_id].status = PENDING_INVENTORY],
                         ticket_id, APPROVED, PENDING_INVENTORY, "System",
                         "Routed to Inventory for replacement")),
                result |-> ticket_id]

\* record_technical_decision(ticket_id, decision, notes, technician_id); the
\* technician_id argument is not read.
record_technical_decision(db, custs, ticket_id, decision, notes) ==
  IF ~TicketExists(db, ticket_id) THEN [db |-> db, result |-> 0]
  ELSE
    LET technician == db.tickets[ticket_id].assigned_technician_id
        decided == [db EXCEPT !.tickets[ticket_id].technical_decision = decision,
                              !.tickets[ticket_id].technical_notes = notes]
        reviewed ==
          IF technician # 0
            THEN [decided EXCEPT !.technicians[technician].current_workload =
                    IF @ - 1 > 0 THEN @ - 1 ELSE 0]
            ELSE decided
    IN  IF decision = REJECTED
          THEN LET rejected == [reviewed EXCEPT !.tickets[ticket_id].status = REJECTED]
                   changed_by == IF technician # 0 THEN db.technicians[technician].name
                                 ELSE "Technical Team"
               IN  [db |-> session_commit(
                             log_status_change(rejected, ticket_id,
                                               rejected.tickets[ticket_id].status, REJECTED,
                                               changed_by, "Rejected")),
                    result |-> ticket_id]
          ELSE [db |-> session_commit(route_to_compensation(reviewed, custs, ticket_id).db),
                result |-> ticket_id]

\* process_finance_approval(ticket_id, sales_order)
process_finance_approval(db, ticket_id, sales_order) ==
  IF ~TicketExists(db, ticket_id) THEN [db |-> db, result |-> 0]
  ELSE [db |-> session_commit(log_status_change(
                 [db EXCEPT !.tickets[ticket_id].sales_order_number = sales_order,
                            !.tickets[ticket_id].status = FINANCE_APPROVED],
                 ticket_id, PENDING_FINANCE, FINANCE_APPROVED, "Finance Team",
                 "Sales order created")),
        result |-> ticket_id]

\* process_inventory_preparation(ticket_id, tracking)
process_inventory_preparation(db, ticket_id, tracking) ==
  IF ~TicketExists(db, ticket_id) THEN [db |-> db, result |-> 0]
  ELSE [db |-> session_commit(log_status_change(
                 [db EXCEPT !.tickets[ticket_id].replacement_tracking = tracking,
                            !.tickets[ticket_id].status = INVENTORY_PREPARED],
                 ticket_id, PENDING_INVENTORY, INVENTORY_PREPARED, "Inventory Team",
                 "Replacement prepared")),
        result |-> ticket_id]

\* complete_ticket(ticket_id, completed_by)
complete_ticket(db, ticket_id, completed_by) ==
  IF ~TicketExists(db, ticket_id) THEN [db |-> db, result |-> 0]
  ELSE [db |-> session_commit(log_status_change(
                 [db EXCEPT !.tickets[ticket_id].status = COMPLETED,
                            !.tickets[ticket_id].completed_at = "set"],
                 ticket_id, db.tickets[ticket_id].status, COMPLETED, completed_by,
                 "Ticket completed")),
        result |-> ticket_id]

\* update_status(ticket_id, new_status, changed_by, reason)
update_status(db, ticket_id, new_status, changed_by) ==
  IF ~TicketExists(db, ticket_id) THEN [db |-> db, result |-> 0]
  ELSE [db |-> log_status_change(
                 session_commit(
                   [db EXCEPT !.tickets[ticket_id].status = new_status,
                              !.tickets[ticket_id].completed_at =
                                 IF new_status = COMPLETED THEN "set" ELSE @]),
                 ticket_id, db.tickets[ticket_id].status, new_status, changed_by,
                 "None"),
        result |-> ticket_id]

\* get_ticket_by_number: the id of the row with the number, 0 for None.
get_ticket_by_number(tks, ticket_number) ==
  IF \E i \in 1..Len(tks) : tks[i].ticket_number = ticket_number
    THEN CHOOSE i \in 1..Len(tks) : tks[i].ticket_number = ticket_number
    ELSE 0

\* get_customer_tickets(customer_id, limit=1): the customer's latest ticket
\* (created_at descending is insertion order reversed), 0 when there is none.
LatestTicketOf(tks, customer_id) ==
  LET own == {i \in 1..Len(tks) : tks[i].customer_id = customer_id}
  IN  IF own = {} THEN 0 ELSE CHOOSE i \in own : \A j \in own : j <= i

(***************************************************************************)
(* WorkflowService                                                         *)
(***************************************************************************)

\* Customer.query.filter_by(phone_number=phone).first(): the row's id, 0 for None.
\* (variant: the query has no filter, the first row of the table is returned)
CustomerOfAnyPhone(custs, phone) ==
  IF custs = <<>> THEN 0 ELSE 1

CustomerByPhone(custs, phone) ==
  LET found == {i \in 1..Len(custs) : custs[i].phone_number = phone}
  IN  IF found = {} THEN 0 ELSE CHOOSE i \in found : \A j \in found : i <= j

\* _get_or_create_customer(phone, name); has_account: what random.choice
\* returns for a new customer.
get_or_create_customer(custs, phone, name, has_account) ==
  LET customer == CustomerByPhone(custs, phone)
  IN  IF customer = 0
        THEN [customers |-> Append(custs, Customer(phone, name, has_account, "ar")),
              id |-> Len(custs) + 1]
      ELSE IF name # "None" /\ custs[customer].customer_name = "None"
        THEN [customers |-> [custs EXCEPT ![customer].customer_name = name],
              id |-> customer]
      ELSE [customers |-> custs, id |-> customer]

\* ConversationState.query.filter_by(customer_id=customer_id).first()
StateByCustomer(states, customer_id) ==
  LET found == {i \in 1..Len(states) : states[i].customer_id = customer_id}
  IN  IF found = {} THEN 0 ELSE CHOOSE i \in found : \A j \in found : i <= j

\* _get_conversation_state(customer_id)
\* (variant: the row of a new customer starts in the product step)
get_conversation_state_collecting(states, customer_id) ==
  LET state == StateByCustomer(states, customer_id)
  IN  IF state = 0
        THEN [states |-> Append(states,
                                ConversationState(customer_id, COLLECTING_PRODUCT, EmptyDict)),
              id |-> Len(states) + 1]
        ELSE [states |-> states, id |-> state]

\* (variant: the row of a new customer starts in the declared greeting step)
get_conversation_state_greeting(states, customer_id) ==
  LET state == StateByCustomer(states, customer_id)
  IN  IF state = 0
        THEN [states |-> Append(states, ConversationState(customer_id, "greeting", EmptyDict)),
              id |-> Len(states) + 1]
        ELSE [states |-> states, id |-> state]

get_conversation_state(states, customer_id) ==
  LET state == StateByCustomer(states, customer_id)
  IN  IF state = 0
        THEN [states |-> Append(states, ConversationState(customer_id, IDLE, EmptyDict)),
              id |-> Len(states) + 1]
        ELSE [states |-> states, id |-> state]

\* _handle_status_check(customer, entities, lang)
\* (variant: the ticket number of the message is not looked at)
handle_status_check_latest(tks, customer_id, entities, lang) ==
  LET ticket == LatestTicketOf(tks, customer_id)
  IN  IF ticket # 0 THEN get_ticket_status(tks[ticket], lang)
      ELSE get_no_tickets(lang)

handle_status_check(tks, customer_id, entities, lang) ==
  LET ticket == IF Truthy(entities.ticket_number)
                  THEN get_ticket_by_number(tks, entities.ticket_number)
                  ELSE LatestTicketOf(tks, customer_id)
  IN  IF ticket # 0 THEN get_ticket_status(tks[ticket], lang)
      ELSE get_no_tickets(lang)

\* What _route_message leaves behind: the state row, the store's view, the
\* response; raised when an exception left it without a response.
Routed(state, db, response) ==
  [state |-> state, db |-> db, response |-> response, raised |-> FALSE]

\* The photo list of the COLLECTING_PHOTOS branch.
\* (variant: an image is kept before the intent is looked at)
CollectedPhotosImageFirst(collected_data, intent, message_type, media_id) ==
  IF message_type = "image" /\ media_id # "None"
    THEN Append(DictGet(collected_data, "photos", <<>>), media_id)
  ELSE <<>>

CollectedPhotos(collected_data, intent, message_type, media_id) ==
  IF intent = "skip" THEN <<>>
  ELSE IF message_type = "image" /\ media_id # "None"
    THEN Append(DictGet(collected_data, "photos", <<>>), media_id)
  ELSE <<>>

\* The COLLECTING_PRODUCT branch: the message is the product name.
\* (variant: the name is stored as the classifier reads it, lowered and stripped)
CollectProductNormalised(state, db, message, lang) ==
  Routed([state EXCEPT !.collected_data =
                          DictSet(state.collected_data, "product_name", strip(lower(message))),
                       !.current_step = COLLECTING_ISSUE],
         db, get_ask_issue(lang))

\* (variant: a message with a cancel keyword ends the complaint)
CollectProductUnlessCancel(state, db, message, lang) ==
  IF AnyKeyword(KeywordsOf("cancel"), strip(lower(message)))
    THEN Routed(reset(state), db, get_cancelled(lang))
    ELSE Routed([state EXCEPT !.collected_data =
                                 DictSet(state.collected_data, "product_name", message),
                              !.current_step = COLLECTING_ISSUE],
                db, get_ask_issue(lang))

CollectProduct(state, db, message, lang) ==
  Routed([state EXCEPT !.collected_data =
                          DictSet(state.collected_data, "product_name", message),
                       !.current_step = COLLECTING_ISSUE],
         db, get_ask_issue(lang))

\* The CONFIRMING_DATA branch on confirm_yes: create the ticket, reset the state.
\* (variant: the step goes back to idle, the collected data stays)
ConfirmYesKeepsData(customer_id, state, db, lang, ticket_number, first) ==
  LET collected_data == state.collected_data
      created == create_ticket(db, customer_id,
                   [product_name |-> DictGet(collected_data, "product_name", NoneStr),
                    issue_description |-> DictGet(collected_data, "issue_description", NoneStr),
                    issue_category |-> DictGet(collected_data, "issue_category", "None"),
                    photos |-> DictGet(collected_data, "photos", <<>>)],
                   ticket_number, first)
  IN  IF created.raised
        THEN [state |-> state, db |-> db, response |-> <<>>, raised |-> TRUE]
        ELSE Routed([state EXCEPT !.current_step = IDLE,
                                  !.current_ticket_id = created.result],
                    session_commit(created.db),
                    get_ticket_created(created.db.tickets[created.result].ticket_number, lang))

ConfirmYes(customer_id, state, db, lang, ticket_number, first) ==
  LET collected_data == state.collected_data
      created == create_ticket(db, customer_id,
                   [product_name |-> DictGet(collected_data, "product_name", NoneStr),
                    issue_description |-> DictGet(collected_data, "issue_description", NoneStr),
                    issue_category |-> DictGet(collected_data, "issue_category", "None"),
                    photos |-> DictGet(collected_data, "photos", <<>>)],
                   ticket_number, first)
  IN  IF created.raised
        THEN [state |-> state, db |-> db, response |-> <<>>, raised |-> TRUE]
        ELSE Routed([state EXCEPT !.current_step = IDLE,
                                  !.collected_data = EmptyDict,
                                  !.current_ticket_id = created.result],
                    session_commit(created.db),
                    get_ticket_created(created.db.tickets[created.result].ticket_number, lang))

\* The confirm_no branch of CONFIRMING_DATA: the collection starts again.
\* (variant: the data collected so far are kept)
ConfirmNoKeepsData(state, db, lang) ==
  Routed([state EXCEPT !.current_step = COLLECTING_PRODUCT],
         db, get_restart(lang) \o get_ask_product(lang))

\* (variant: the answer no ends the complaint, the state is reset)
ConfirmNoEnds(state, db, lang) ==
  Routed(reset(state), db, get_restart(lang) \o get_ask_product(lang))

ConfirmNo(state, db, lang) ==
  Routed([state EXCEPT !.current_step = COLLECTING_PRODUCT,
                       !.collected_data = EmptyDict],
         db, get_restart(lang) \o get_ask_product(lang))

\* The last branch of CONFIRMING_DATA: the prompt is sent again.
\* (variant: an answer that is neither yes nor no starts the collection again)
ConfirmPromptRestarts(state, db, lang) ==
  Routed([state EXCEPT !.current_step = COLLECTING_PRODUCT,
                       !.collected_data = EmptyDict],
         db, get_confirm_prompt(lang))

ConfirmPrompt(state, db, lang) ==
  Routed(state, db, get_confirm_prompt(lang))

\* _route_message(customer, state, intent, message, entities, message_type, media_id)
\* ticket_number, first: what generate_ticket_number and the auto-assignment
\* query return if the branch taken creates a ticket.
route_message(custs, customer_id, state, db, intent, message, entities, message_type, media_id, ticket_number, first) ==
  LET current_step == state.current_step
      collected_data == state.collected_data
      lang == custs[customer_id].preferred_language
  IN  IF current_step = IDLE THEN
        IF intent = "greeting" THEN Routed(state, db, get_greeting(lang))
        ELSE IF intent = "new_complaint" THEN
          Routed([state EXCEPT !.current_step = COLLECTING_PRODUCT,
                               !.collected_data = EmptyDict],
                 db, get_ask_product(lang))
        ELSE IF intent = "check_status" THEN
          Routed(state, db, handle_status_check(db.tickets, customer_id, entities, lang))
        ELSE IF intent = "help" THEN Routed(state, db, get_help(lang))
        ELSE IF intent = "thanks" THEN Routed(state, db, get_thanks_response(lang))
        ELSE Routed(state, db, get_greeting(lang))
      ELSE IF current_step = COLLECTING_PRODUCT THEN
        CollectProduct(state, db, message, lang)
      ELSE IF current_step = COLLECTING_ISSUE THEN
        Routed([state EXCEPT
                  !.collected_data =
                     DictSet(DictSet(collected_data, "issue_description", message),
                             "issue_category", suggest_issue_category(message)),
                  !.current_step = COLLECTING_PHOTOS],
               db, get_ask_photos(lang))
      ELSE IF current_step = COLLECTING_PHOTOS THEN
        LET collected == DictSet(collected_data, "photos",
                                 CollectedPhotos(collected_data, intent, message_type, media_id))
        IN  Routed([state EXCEPT !.collected_data = collected,
                                 !.current_step = CONFIRMING_DATA],
                   db,
                   get_confirm_data(DictGet(collected, "product_name", <<45>>),
                                    DictGet(collected, "issue_description", <<45>>),
                                    lang))
      ELSE IF current_step = CONFIRMING_DATA THEN
        IF intent = "confirm_yes" THEN
          ConfirmYes(customer_id, state, db, lang, ticket_number, first)
        ELSE IF intent = "confirm_no" THEN ConfirmNo(state, db, lang)
        ELSE ConfirmPrompt(state, db, lang)
      ELSE IF intent = "cancel" THEN Routed(reset(state), db, get_cancelled(lang))
      ELSE Routed(state, db, get_unknown(lang))

\* The record of an operation kept in `last`.
Op(name) ==
  [op |-> name, phone |-> "None", customer_id |-> 0, message |-> NoneStr,
   message_type |-> "None", media_id |-> "None", step |-> "None", intent |-> "None",
   ticket_id |-> 0, technician_id |-> 0, decision |-> "None", notes |-> NoneStr,
   new_status |-> "None", result |-> 0, ok |-> TRUE, raised |-> FALSE, sent |-> TRUE,
   raced |-> FALSE, status_code |-> 200, language |-> "None",
   response |-> <<>>, conversations |-> <<>>, status_history |-> <<>>, uncommitted |-> 0]

\* Whether generate_ticket_number / the auto-assignment query run in this message.
CreatesTicket(state, intent) ==
  state.current_step = CONFIRMING_DATA /\ intent = "confirm_yes"

\* The rows _save_message commits for a message: the inbound row before the
\* message is classified and routed, the outbound row when _route_message
\* has returned a response.
\* (variant: both rows are saved when the response is there)
SavedMessagesWithResponse(inbound, routed) ==
  IF routed.raised THEN <<>>
  ELSE <<inbound, Conversation(inbound.customer_id, "outbound", routed.response, "text")>>

SavedMessages(inbound, routed) ==
  IF routed.raised THEN <<inbound>>
  ELSE <<inbound, Conversation(inbound.customer_id, "outbound", routed.response, "text")>>

\* The answer of chat and receive_message to an exception that
\* handle_incoming_message lets through: {'error': str(e)} or
\* {'status': 'error', 'message': str(e)} with this status, and no message to
\* the customer.
ErrorStatus == 500

\* handle_incoming_message(phone, message, message_type, media_id, contact_name)
\* (each local is bound once, in the order the code computes it)
handle_incoming_message(phone, message, message_type, media_id, contact_name) ==
  /\ \E has_account \in IF CustomerByPhone(customers, phone) = 0 THEN BOOLEAN ELSE {FALSE} :
     \E got \in {get_or_create_customer(customers, phone, contact_name, has_account)} :
     \E loaded \in {get_conversation_state(conversation_states, got.id)} :
     \E state \in {loaded.states[loaded.id]} :
     \E inbound \in {Conversation(got.id, "inbound", message, message_type)} :
     \E language \in {detect_language(message)} :
     \E custs \in {[got.customers EXCEPT ![got.id].preferred_language = language]} :
     \E intent \in {classify_intent(message, state.current_step)} :
     \E entities \in {extract_entities(message)} :
     \E random_part \in IF CreatesTicket(state, intent) THEN RandomParts ELSE {<<>>} :
     \E first \in IF CreatesTicket(state, intent) THEN AutoFirst(technicians) ELSE {0} :
     \E routed \in {route_message(custs, got.id, state, StoreView(tickets, technicians),
                                  intent, message, entities, message_type, media_id,
                                  generate_ticket_number(random_part), first)} :
     \E saved \in {SavedMessages(inbound, routed)} :
     \E call \in {[Op("handle_incoming_message") EXCEPT
                     !.phone = phone, !.customer_id = got.id,
                     !.message = message, !.message_type = message_type,
                     !.media_id = media_id, !.step = state.current_step,
                     !.intent = intent, !.conversations = saved]} :
       /\ customers' = custs
       /\ n_conversations' = n_conversations + Len(saved)
       /\ UNCHANGED <<n_session_history, n_lost_history, requests>>
       /\ IF routed.raised
            THEN /\ conversation_states' = loaded.states
                 /\ UNCHANGED <<tickets, technicians, n_status_history>>
                 /\ last' = [call EXCEPT !.raised = TRUE, !.ok = FALSE,
                                         !.status_code = ErrorStatus,
                                         !.response = Literal("IntegrityError")]
            ELSE /\ conversation_states' =
                      [loaded.states EXCEPT ![loaded.id] = routed.state]
                 /\ tickets' = routed.db.tickets
                 /\ technicians' = routed.db.technicians
                 /\ n_status_history' = n_status_history + Len(routed.db.status_history)
                 /\ last' = [call EXCEPT
                               !.response = routed.response,
                               !.result = routed.state.current_ticket_id,
                               !.status_history = routed.db.status_history]

\* The rows handle_technical_decision saves after the send: the notification,
\* whether or not the send succeeded.
\* (variant: the notification is saved only when it was sent)
NotificationRowsWhenSent(customer, notification, sent) ==
  IF customer # 0 /\ sent
    THEN <<Conversation(customer, "outbound", notification, "text")>>
    ELSE <<>>

NotificationRows(customer, notification, sent) ==
  IF customer # 0
    THEN <<Conversation(customer, "outbound", notification, "text")>>
    ELSE <<>>

\* handle_technical_decision(ticket_id, decision, notes, technician_id):
\* <<success, notification>> is last.ok, last.response.  sent: whether
\* send_text_message delivered the notification; it returns an error dict
\* when it did not, and an exception it lets through is dropped by the caller.
handle_technical_decision(ticket_id, decision, notes, sent) ==
  \E recorded \in {record_technical_decision(StoreView(tickets, technicians),
                                             customers, ticket_id, decision, notes)} :
  \E call \in {[Op("handle_technical_decision") EXCEPT
                  !.ticket_id = ticket_id, !.decision = decision, !.notes = notes]} :
    IF recorded.result = 0
      THEN /\ last' = [call EXCEPT !.ok = FALSE, !.status_code = 404,
                                   !.response = Literal("Ticket not found")]
           /\ UNCHANGED <<customers, conversation_states, tickets, technicians,
                          n_conversations, n_status_history, n_session_history,
                          n_lost_history, requests>>
      ELSE
        \E ticket \in {recorded.db.tickets[ticket_id]} :
        \E customer \in {CustomerOf(customers, ticket)} :
        \E lang \in {IF customer # 0 THEN customers[customer].preferred_language
                     ELSE "ar"} :
        \E notification \in
             {IF decision = "rejected"
                THEN get_ticket_rejected(ticket.ticket_number,
                                         IF Truthy(notes) THEN notes
                                         ELSE <<78, 111, 32, 105, 115, 115, 117, 101, 32,
                                                102, 111, 117, 110, 100>>,  \* 'No issue found'
                                         lang)
              ELSE IF ticket.compensation_type = "refund"
                THEN get_ticket_approved_refund(ticket.ticket_number, lang)
              ELSE get_ticket_approved_replacement(ticket.ticket_number, lang)} :
        \E saved \in {NotificationRows(customer, notification,
                                       sent /\ customer # 0)} :
          /\ tickets' = recorded.db.tickets
          /\ technicians' = recorded.db.technicians
          /\ n_status_history' = n_status_history + n_session_history
                                   + Len(recorded.db.status_history)
          /\ n_session_history' = 0
          /\ n_conversations' = n_conversations + Len(saved)
          /\ last' = [call EXCEPT
                        !.customer_id = customer,
                        !.result = ticket_id,
                        !.sent = sent /\ customer # 0,
                        !.response = notification,
                        !.conversations = saved,
                        !.status_history = recorded.db.status_history]
          /\ UNCHANGED <<customers, conversation_states, n_lost_history, requests>>

(***************************************************************************)
(* The conversational surface: POST /api/chat and the WhatsApp webhook     *)
(* hand every inbound message to handle_incoming_message.                  *)
(***************************************************************************)

\* The technicians create_app seeds: three, active, max_workload 15.
SeedMaxWorkload == 15

SeededTechnicians ==
  (1 :> Technician("Ahmed Mohamed", TRUE, SeedMaxWorkload)) @@
  (2 :> Technician("Sara Ali", TRUE, SeedMaxWorkload)) @@
  (3 :> Technician("Mohamed Hassan", TRUE, SeedMaxWorkload))

Init ==
  /\ customers = <<>>
  /\ conversation_states = <<>>
  /\ tickets = <<>>
  /\ technicians = SeededTechnicians
  /\ n_conversations = 0
  /\ n_status_history = 0
  /\ n_session_history = 0
  /\ n_lost_history = 0
  /\ requests = <<>>
  /\ last = Op("init")

Phones == {"+201001234567", "+201009999999"}

\* The inbound messages of the model: "1", "Yes" and "cancel" typed into the
\* chat, and an image captioned with the Arabic "no" (U+0644 U+0627) arriving
\* over the webhook with its media id and the sender's profile name.
Inbound ==
  {[message |-> <<49>>, message_type |-> "text", media_id |-> "None",
    contact_name |-> "None"],
   [message |-> <<89, 101, 115>>, message_type |-> "text", media_id |-> "None",
    contact_name |-> "None"],
   [message |-> <<99, 97, 110, 99, 101, 108>>, message_type |-> "text",
    media_id |-> "None", contact_name |-> "None"],
   [message |-> <<1604, 1575>>, message_type |-> "image", media_id |-> "media-1",
    contact_name |-> "Ali"]}

ReceiveMessage ==
  /\ n_conversations + 2 <= MaxConversations
  /\ \E phone \in Phones, m \in Inbound :
          handle_incoming_message(phone, m.message, m.message_type, m.media_id, m.contact_name)

Next ==
  ReceiveMessage

Spec ==
  Init /\ [][Next]_vars

(***************************************************************************)
(* POST /api/chat, with the texts a client may post: none, blanks, and     *)
(* texts the workflow understands.                                         *)
(***************************************************************************)

\* chat()
\* (variant: the message is not looked at before the orchestrator is called)
chat_unchecked(phone, message) ==
  handle_incoming_message(phone, message, "text", "None", "None")

chat(phone, message) ==
  IF strip(message) = <<>>
    THEN /\ last' = [Op("chat") EXCEPT
                       !.phone = phone, !.message = message, !.ok = FALSE,
                       !.status_code = 400, !.response = Literal("Empty message")]
         /\ UNCHANGED <<customers, conversation_states, tickets, technicians,
                        n_conversations, n_status_history, n_session_history,
                        n_lost_history, requests>>
    ELSE handle_incoming_message(phone, message, "text", "None", "None")

\* No chat message is taken in SpecChat once the conversations table holds this
\* many rows.
MaxChatConversations == 8

\* "", " ", "  ", "1", " 1", "Yes" and "cancel".
ChatTexts ==
  {<<>>, <<32>>, <<32, 32>>, <<49>>, <<32, 49>>, <<89, 101, 115>>,
   <<99, 97, 110, 99, 101, 108>>}

Chat ==
  /\ n_conversations + 2 <= MaxChatConversations
  /\ \E phone \in Phones, message \in ChatTexts : chat(phone, message)

NextChat ==
  Chat

SpecChat ==
  Init /\ [][NextChat]_vars

(***************************************************************************)
(* One customer filing complaints again and again: the runs in which a     *)
(* generated ticket number meets one already stored.                       *)
(***************************************************************************)

\* No inbound message is taken in SpecRepeat once the conversations table holds
\* this many rows.
MaxRepeatConversations == 20

RepeatInbound ==
  {m \in Inbound : m.message # <<99, 97, 110, 99, 101, 108>>}

RepeatMessage ==
  /\ n_conversations + 2 <= MaxRepeatConversations
  /\ \E m \in RepeatInbound :
       handle_incoming_message("+201001234567", m.message, m.message_type, m.media_id,
                               m.contact_name)

NextRepeat ==
  RepeatMessage

SpecRepeat ==
  Init /\ [][NextRepeat]_vars

(***************************************************************************)
(* The ticket lifecycle: the operations of TicketService and               *)
(* handle_technical_decision called in any order on a store that holds two *)
(* customers, one with a KAPCI account and one without.                    *)
(***************************************************************************)

\* The max_workload values the technicians of this store are given.
Capacities == {1, 2}

InitTickets ==
  /\ customers = <<Customer("+201001234567", "None", TRUE, "en"),
                   Customer("+201009999999", "Ali", FALSE, "ar")>>
  /\ conversation_states = <<ConversationState(1, IDLE, EmptyDict),
                             ConversationState(2, IDLE, EmptyDict)>>
  /\ tickets = <<>>
  /\ \E max_workload \in Capacities, is_active \in BOOLEAN :
       technicians = (1 :> Technician("Ahmed Mohamed", TRUE, max_workload)) @@
                     (2 :> Technician("Sara Ali", is_active, max_workload))
  /\ n_conversations = 0
  /\ n_status_history = 0
  /\ n_session_history = 0
  /\ n_lost_history = 0
  /\ requests = <<>>
  /\ last = Op("init")

\* The data a caller passes to create_ticket.
TicketData ==
  [product_name |-> <<80, 97, 105, 110, 116>>,
   issue_description |-> <<116, 104, 105, 99, 107>>,
   issue_category |-> "other", photos |-> <<>>]

\* Ticket ids a caller passes: those of the rows, and one that matches none.
TicketIds == 1..(Len(tickets) + 1)

\* Technician ids a caller passes: 0 (none given), the rows' ids, one that matches none.
TechnicianIds == {0} \cup DOMAIN technicians \cup {99}

Decisions == {"approved", "rejected", "on_hold"}

\* The notes / reason of a decision: none given ('' from the API), or "thick".
Notes == {<<>>, <<116, 104, 105, 99, 107>>}

\* The statuses a caller of update_status sets.
StatusInputs == {"under_review", COMPLETED, "cancelled"}

\* What a ticket-service call leaves in the store and in the session: a
\* commit writes the rows the session held; the rows added after the call's
\* last commit stay in the session.
\* What the routes of assign_technician and complete_ticket answer: 404 with
\* {'error': 'Ticket not found'} when the service returns None, else 200.
RouteStatusAlwaysOk(op, result) ==
  200

RouteStatus(op, result) ==
  IF op \in {"assign_technician", "complete_ticket"} /\ result = 0 THEN 404 ELSE 200

Commit(call, done) ==
  /\ tickets' = done.db.tickets
  /\ technicians' = done.db.technicians
  /\ n_status_history' =
       n_status_history + done.db.committed
         + (IF done.db.flushed THEN n_session_history ELSE 0)
  /\ n_session_history' =
       (IF done.db.flushed THEN 0 ELSE n_session_history)
         + Len(done.db.status_history) - done.db.committed
  /\ last' = [call EXCEPT !.result = done.result, !.ok = (done.result # 0),
                          !.status_code = RouteStatus(call.op, done.result),
                          !.status_history = done.db.status_history,
                          !.uncommitted = Len(done.db.status_history) - done.db.committed]
  /\ UNCHANGED <<customers, conversation_states, n_conversations, n_lost_history, requests>>

View == StoreView(tickets, technicians)

\* A call is a request of its own: the session of the call before it has
\* ended.  No call is taken when the rows logged so far, committed or lost
\* with a session, leave no room for the rows it can log.
Budget(rows) ==
  /\ n_session_history = 0
  /\ n_status_history + n_lost_history + rows <= MaxStatusHistory

CreateTicket ==
  /\ Budget(2)
  /\ \E customer_id \in 1..Len(customers), random_part \in RandomParts,
        first \in AutoFirst(technicians) :
     \E done \in {create_ticket(View, customer_id, TicketData,
                                generate_ticket_number(random_part), first)} :
       IF done.raised
         THEN /\ last' = [Op("create_ticket") EXCEPT !.customer_id = customer_id,
                                                     !.raised = TRUE, !.ok = FALSE]
              /\ n_lost_history' = n_lost_history + n_session_history
              /\ n_session_history' = 0
              /\ UNCHANGED <<customers, conversation_states, tickets, technicians,
                             n_conversations, n_status_history, requests>>
         ELSE Commit([Op("create_ticket") EXCEPT !.customer_id = customer_id,
                                                 !.ticket_id = done.result], done)

AssignTechnician ==
  /\ Budget(1)
  /\ \E ticket_id \in TicketIds :
     \E technician_id \in IF ticket_id \in DOMAIN tickets THEN TechnicianIds ELSE {0} :
     \E first \in IF technician_id = 0 THEN AutoFirst(technicians) ELSE {0} :
       /\ technician_id \in DOMAIN technicians =>
            technicians[technician_id].current_workload < MaxLoad
       /\ Commit([Op("assign_technician") EXCEPT !.ticket_id = ticket_id,
                                                 !.technician_id = technician_id],
                 assign_technician(View, ticket_id, technician_id, first))

\* make_decision(ticket_id) with data = {decision, reason}; sent: whether the
\* notification goes out.
\* (variant: the decision is passed on without the check of line 160)
make_decision_unchecked(ticket_id, decision, reason, sent) ==
  handle_technical_decision(ticket_id, decision, reason, sent)

make_decision(ticket_id, decision, reason, sent) ==
  IF decision \notin {"approved", "rejected"}
    THEN /\ last' = [Op("make_decision") EXCEPT
                       !.ticket_id = ticket_id, !.decision = decision,
                       !.notes = reason, !.ok = FALSE, !.status_code = 400,
                       !.response = Literal("Invalid decision")]
         /\ UNCHANGED <<customers, conversation_states, tickets, technicians,
                        n_conversations, n_status_history, n_session_history,
                        n_lost_history, requests>>
    ELSE handle_technical_decision(ticket_id, decision, reason, sent)

HandleTechnicalDecision ==
  /\ Budget(1)
  /\ \E ticket_id \in TicketIds :
     \E decision \in IF ticket_id \in DOMAIN tickets THEN Decisions ELSE {"approved"} :
     \E notes \in IF ticket_id \in DOMAIN tickets /\ decision = "rejected"
                   THEN Notes ELSE {<<>>} :
     \E sent \in IF ticket_id \in DOMAIN tickets /\ decision \in {"approved", "rejected"}
                  THEN BOOLEAN ELSE {TRUE} :
       make_decision(ticket_id, decision, notes, sent)

RouteToCompensation ==
  /\ Budget(1)
  /\ \E ticket_id \in TicketIds :
       Commit([Op("route_to_compensation") EXCEPT !.ticket_id = ticket_id],
              route_to_compensation(View, customers, ticket_id))

FinanceApproval ==
  /\ Budget(1)
  /\ \E ticket_id \in TicketIds :
       Commit([Op("process_finance_approval") EXCEPT !.ticket_id = ticket_id],
              process_finance_approval(View, ticket_id, "SO-1"))

InventoryPreparation ==
  /\ Budget(1)
  /\ \E ticket_id \in TicketIds :
       Commit([Op("process_inventory_preparation") EXCEPT !.ticket_id = ticket_id],
              process_inventory_preparation(View, ticket_id, "TRK-1"))

CompleteTicket ==
  /\ Budget(1)
  /\ \E ticket_id \in TicketIds :
       Commit([Op("complete_ticket") EXCEPT !.ticket_id = ticket_id],
              complete_ticket(View, ticket_id, "System"))

UpdateStatus ==
  /\ Budget(1)
  /\ \E ticket_id \in TicketIds :
     \E new_status \in IF ticket_id \in DOMAIN tickets THEN StatusInputs ELSE {COMPLETED} :
       Commit([Op("update_status") EXCEPT !.ticket_id = ticket_id,
                                          !.new_status = new_status],
              update_status(View, ticket_id, new_status, "System"))

\* The session ends (the request's application context is torn down, or the
\* caller removes the session): what it held and never committed is gone.
EndSession ==
  /\ n_session_history > 0
  /\ n_lost_history' = n_lost_history + n_session_history
  /\ n_session_history' = 0
  /\ last' = Op("session.remove")
  /\ UNCHANGED <<customers, conversation_states, tickets, technicians,
                 n_conversations, n_status_history, requests>>

NextTickets ==
  \/ EndSession
  \/ CreateTicket
  \/ AssignTechnician
  \/ HandleTechnicalDecision
  \/ RouteToCompensation
  \/ FinanceApproval
  \/ InventoryPreparation
  \/ CompleteTicket
  \/ UpdateStatus

SpecTickets ==
  InitTickets /\ [][NextTickets]_vars

(***************************************************************************)
(* Inbound messages served in parallel.  run.py starts the server with     *)
(* app.run(host, port, debug), which serves each request in a thread of    *)
(* its own, every thread with its own session on the one database; no lock *)
(* is taken anywhere in the handlers.  A request of handle_incoming_message*)
(* is two steps here: the read (lines 42-64: the customer and state rows   *)
(* found or created, the inbound message saved, the language updated, each *)
(* with its commit, then state.current_step loaded again for the           *)
(* classifier) and the route (lines 67-73: _route_message on the loaded    *)
(* state, its commit, the outbound message saved).  Between the two the    *)
(* session commits nothing, so the state the route works on is the state   *)
(* the read loaded.                                                        *)
(***************************************************************************)

\* No request is taken while this many are being served.
MaxRequests == 2

\* No request is taken in SpecThreads once the requests served and in flight
\* would bring the conversations table to more rows than this.
MaxThreadConversations == 8

\* A request between its read and its route.  state: the ConversationState
\* attributes the session loaded; state_id: the row they came from; raced:
\* the row as a request that loaded the same attributes for the same customer
\* has written it since, in a sequence that is empty when none has.
Request(phone, customer_id, state_id, m, state, intent) ==
  [phone |-> phone, customer_id |-> customer_id, state_id |-> state_id,
   message |-> m.message, message_type |-> m.message_type, media_id |-> m.media_id,
   state |-> state, intent |-> intent, raced |-> <<>>]

\* The UPDATE of the state row at the route's commit: the columns whose
\* attribute was set to another value than the session loaded.
FlushState(row, loaded, state) ==
  [row EXCEPT
     !.current_step = IF state.current_step # loaded.current_step
                        THEN state.current_step ELSE @,
     !.collected_data = IF state.collected_data # loaded.collected_data
                          THEN state.collected_data ELSE @,
     !.current_ticket_id = IF state.current_ticket_id # loaded.current_ticket_id
                             THEN state.current_ticket_id ELSE @]

\* The requests left in flight when request k has ended; written: the row
\* it wrote, if it wrote one.  Those that loaded what k loaded, for the same
\* customer, have been raced.
AfterWrite(reqs, k, written) ==
  LET marked == [j \in DOMAIN reqs |->
                   IF /\ written # <<>>
                      /\ j # k
                      /\ reqs[j].customer_id = reqs[k].customer_id
                      /\ reqs[j].state = reqs[k].state
                     THEN [reqs[j] EXCEPT !.raced = written]
                     ELSE reqs[j]]
  IN  SubSeq(marked, 1, k - 1) \o SubSeq(marked, k + 1, Len(marked))

\* handle_incoming_message, lines 42-64, of a request that arrives.
ReadMessage ==
  /\ Len(requests) < MaxRequests
  /\ n_conversations + Len(requests) + 2 <= MaxThreadConversations
  /\ \E phone \in Phones, m \in Inbound :
     \E has_account \in IF CustomerByPhone(customers, phone) = 0 THEN BOOLEAN ELSE {FALSE} :
     \E got \in {get_or_create_customer(customers, phone, m.contact_name, has_account)} :
     \E loaded \in {get_conversation_state(conversation_states, got.id)} :
     \E state \in {loaded.states[loaded.id]} :
     \E language \in {detect_language(m.message)} :
     \E intent \in {classify_intent(m.message, state.current_step)} :
       /\ customers' = [got.customers EXCEPT ![got.id].preferred_language = language]
       /\ conversation_states' = loaded.states
       /\ n_conversations' = n_conversations + 1
       /\ requests' = Append(requests, Request(phone, got.id, loaded.id, m, state, intent))
       /\ last' = [Op("handle_incoming_message.read") EXCEPT
                     !.phone = phone, !.customer_id = got.id,
                     !.message = m.message, !.message_type = m.message_type,
                     !.media_id = m.media_id, !.step = state.current_step,
                     !.intent = intent,
                     !.conversations =
                        <<Conversation(got.id, "inbound", m.message, m.message_type)>>]
       /\ UNCHANGED <<tickets, technicians, n_status_history, n_session_history,
                      n_lost_history>>

\* handle_incoming_message, lines 67-73, of a request in flight.
RouteMessage ==
  \E k \in DOMAIN requests :
  \E req \in {requests[k]} :
  \E random_part \in IF CreatesTicket(req.state, req.intent) THEN RandomParts ELSE {<<>>} :
  \E first \in IF CreatesTicket(req.state, req.intent) THEN AutoFirst(technicians) ELSE {0} :
  \E routed \in {route_message(customers, req.customer_id, req.state,
                               StoreView(tickets, technicians), req.intent, req.message,
                               extract_entities(req.message), req.message_type,
                               req.media_id, generate_ticket_number(random_part), first)} :
  \E call \in {[Op("handle_incoming_message.route") EXCEPT
                  !.phone = req.phone, !.customer_id = req.customer_id,
                  !.message = req.message, !.message_type = req.message_type,
                  !.media_id = req.media_id, !.step = req.state.current_step,
                  !.intent = req.intent,
                  !.raced = (req.raced = <<conversation_states[req.state_id]>>)]} :
    /\ UNCHANGED <<customers, n_session_history, n_lost_history>>
    /\ IF routed.raised
         THEN /\ requests' = AfterWrite(requests, k, <<>>)
              /\ last' = [call EXCEPT !.raised = TRUE, !.ok = FALSE]
              /\ UNCHANGED <<conversation_states, tickets, technicians,
                             n_status_history, n_conversations>>
         ELSE /\ conversation_states' =
                   [conversation_states EXCEPT
                      ![req.state_id] = FlushState(@, req.state, routed.state)]
              /\ tickets' = routed.db.tickets
              /\ technicians' = routed.db.technicians
              /\ n_status_history' = n_status_history + Len(routed.db.status_history)
              /\ n_conversations' = n_conversations + 1
              /\ requests' = AfterWrite(requests, k,
                                       IF routed.state # req.state
                                         THEN <<conversation_states'[req.state_id]>>
                                         ELSE <<>>)
              /\ last' = [call EXCEPT
                            !.response = routed.response,
                            !.result = routed.state.current_ticket_id,
                            !.conversations =
                               <<Conversation(req.customer_id, "outbound",
                                              routed.response, "text")>>,
                            !.status_history = routed.db.status_history]

NextThreads ==
  \/ ReadMessage
  \/ RouteMessage

SpecThreads ==
  Init /\ [][NextThreads]_vars

(***************************************************************************)
(* Auto-assignments served in parallel.  assign_technician is two steps    *)
(* here: the query (lines 158-165: the ticket and the technician row of    *)
(* least workload loaded into the session) and the commit (lines 167-170:  *)
(* the ticket's technician set, technician.current_workload += 1 computed  *)
(* on the loaded row, the commit that writes both).  create_ticket runs    *)
(* its INSERT and its commit (lines 33-44) before the query.               *)
(***************************************************************************)

\* No call is taken in SpecAssign once the status-history rows written, lost
\* and to come would be more than this.
MaxAssignRows == 6

\* An auto-assignment between its query and its commit.  technician_id: the row
\* the query returned, 0 for None; current_workload: its workload as loaded.
Assignment(op, ticket_id, technician_id, techs) ==
  [op |-> op, ticket_id |-> ticket_id, technician_id |-> technician_id,
   current_workload |-> IF technician_id = 0 THEN 0
                        ELSE techs[technician_id].current_workload]

AssignBudget ==
  /\ Len(requests) < MaxRequests
  /\ n_status_history + n_lost_history + 2 * Len(requests) + 2 <= MaxAssignRows

\* create_ticket, lines 33-50, down to the query of assign_technician.
CreateTicketQuery ==
  /\ AssignBudget
  /\ \E customer_id \in 1..Len(customers), random_part \in RandomParts,
        first \in AutoFirst(technicians) :
     \E ticket_number \in {generate_ticket_number(random_part)} :
       /\ UNCHANGED <<customers, conversation_states, technicians, n_conversations,
                      n_status_history, n_session_history, n_lost_history>>
       /\ IF NumberTaken(View, ticket_number)
            THEN /\ last' = [Op("create_ticket") EXCEPT !.customer_id = customer_id,
                                                        !.raised = TRUE, !.ok = FALSE]
                 /\ UNCHANGED <<tickets, requests>>
            ELSE /\ tickets' = Append(tickets, Ticket(ticket_number, customer_id, TicketData))
                 /\ requests' = Append(requests,
                                       Assignment("create_ticket", Len(tickets) + 1, first,
                                                  technicians))
                 /\ last' = [Op("create_ticket.query") EXCEPT
                               !.customer_id = customer_id,
                               !.ticket_id = Len(tickets) + 1,
                               !.technician_id = first]

\* assign_technician(ticket_id), lines 158-165.
AssignTechnicianQuery ==
  /\ AssignBudget
  /\ \E ticket_id \in 1..Len(tickets), first \in AutoFirst(technicians) :
       /\ requests' = Append(requests,
                             Assignment("assign_technician", ticket_id, first, technicians))
       /\ last' = [Op("assign_technician.query") EXCEPT
                     !.ticket_id = ticket_id, !.technician_id = first]
       /\ UNCHANGED <<customers, conversation_states, tickets, technicians,
                      n_conversations, n_status_history, n_session_history,
                      n_lost_history>>

\* assign_technician, lines 167-177, and the end of the call: the commit
\* writes the 'Ticket created' row create_ticket had added; the row added
\* after the commit goes with the session.
AssignTechnicianCommit ==
  \E k \in DOMAIN requests :
  \E req \in {requests[k]} :
  \E created \in {IF req.op = "create_ticket" THEN 1 ELSE 0} :
    /\ requests' = SubSeq(requests, 1, k - 1) \o SubSeq(requests, k + 1, Len(requests))
    /\ last' = [Op("assign_technician.commit") EXCEPT
                  !.ticket_id = req.ticket_id, !.technician_id = req.technician_id,
                  !.result = req.ticket_id]
    /\ UNCHANGED <<customers, conversation_states, n_conversations, n_session_history>>
    /\ IF req.technician_id # 0
         THEN /\ tickets' = [tickets EXCEPT
                               ![req.ticket_id].assigned_technician_id = req.technician_id]
              /\ technicians' = [technicians EXCEPT
                                   ![req.technician_id].current_workload =
                                      req.current_workload + 1]
              /\ n_status_history' = n_status_history + created
              /\ n_lost_history' = n_lost_history + 1
         ELSE /\ n_lost_history' = n_lost_history + created
              /\ UNCHANGED <<tickets, technicians, n_status_history>>

NextAssign ==
  \/ CreateTicketQuery
  \/ AssignTechnicianQuery
  \/ AssignTechnicianCommit

SpecAssign ==
  InitTickets /\ [][NextAssign]_vars

(***************************************************************************)
(* Status checks: customers asking for the status of their tickets while   *)
(* tickets are being created.                                              *)
(***************************************************************************)

\* No status message is taken in SpecStatus once the conversations table holds
\* this many rows.
MaxStatusConversations == 6

\* "status", "status TKT-2026-00002" and "status TKT-2026-00001".  The last
\* holds "1", a keyword of new_complaint, which is looked for before the
\* keywords of check_status.
StatusTexts ==
  {<<115, 116, 97, 116, 117, 115>>,
   <<115, 116, 97, 116, 117, 115, 32>> \o generate_ticket_number(<<48, 48, 48, 48, 50>>),
   <<115, 116, 97, 116, 117, 115, 32>> \o generate_ticket_number(<<48, 48, 48, 48, 49>>)}

StatusMessage ==
  /\ n_session_history = 0
  /\ n_conversations + 2 <= MaxStatusConversations
  /\ \E phone \in Phones, message \in StatusTexts :
       handle_incoming_message(phone, message, "text", "None", "None")

NextStatus ==
  \/ EndSession
  \/ CreateTicket
  \/ StatusMessage

SpecStatus ==
  InitTickets /\ [][NextStatus]_vars

(***************************************************************************)
(* First messages served in parallel.  A request is five steps here: the   *)
(* customer query (line 292), the customer INSERT or name UPDATE with its   *)
(* commit (lines 294-307), the state query (line 311), the state INSERT     *)
(* with its commit (lines 313-320), and the rest of handle_incoming_message *)
(* (lines 48-73).  customers.phone_number and                               *)
(* conversation_states.customer_id are unique columns: the commit of a row  *)
(* whose value is already stored raises IntegrityError, which ends the      *)
(* request.                                                                 *)
(***************************************************************************)

\* No request is taken in SpecArrivals while this many are being served.
MaxArrivals == 2

\* No request is taken in SpecArrivals once the conversations table, with the
\* rows of the requests being served, would hold more than this many rows.
MaxArrivalConversations == 4

\* "1" typed into the chat, and an image captioned with the Arabic "no" from
\* a sender whose profile name is Ali.
ArrivalInbound ==
  {m \in Inbound : m.message \in {<<49>>, <<1604, 1575>>}}

\* A request in flight.  step: the line it is at; customer_id, state_id: the
\* rows its queries returned or its INSERTs made, 0 for None.
Arrival(phone, m, step, customer_id, state_id) ==
  [phone |-> phone, message |-> m.message, message_type |-> m.message_type,
   media_id |-> m.media_id, contact_name |-> m.contact_name, step |-> step,
   customer_id |-> customer_id, state_id |-> state_id]

\* The requests in flight without request k.
Without(reqs, k) ==
  SubSeq(reqs, 1, k - 1) \o SubSeq(reqs, k + 1, Len(reqs))

\* The request ended by an exception.
Failed(req) ==
  [Op("handle_incoming_message") EXCEPT
     !.phone = req.phone, !.customer_id = req.customer_id, !.message = req.message,
     !.message_type = req.message_type, !.media_id = req.media_id,
     !.raised = TRUE, !.ok = FALSE, !.status_code = ErrorStatus,
     !.response = Literal("IntegrityError")]

\* db.session.add(customer); db.session.commit() on customers
\* (variant: phone_number is not a unique column)
InsertCustomerNotUnique(custs, phone, name, has_account) ==
  [customers |-> Append(custs, Customer(phone, name, has_account, "ar")),
   id |-> Len(custs) + 1, raised |-> FALSE]

InsertCustomer(custs, phone, name, has_account) ==
  IF \E c \in DOMAIN custs : custs[c].phone_number = phone
    THEN [customers |-> custs, id |-> 0, raised |-> TRUE]
    ELSE [customers |-> Append(custs, Customer(phone, name, has_account, "ar")),
          id |-> Len(custs) + 1, raised |-> FALSE]

\* db.session.add(state); db.session.commit() on conversation_states
InsertState(states, customer_id) ==
  IF \E st \in DOMAIN states : states[st].customer_id = customer_id
    THEN [states |-> states, id |-> 0, raised |-> TRUE]
    ELSE [states |-> Append(states, ConversationState(customer_id, IDLE, EmptyDict)),
          id |-> Len(states) + 1, raised |-> FALSE]

\* _get_or_create_customer, line 292, of a request that arrives.
QueryCustomer ==
  /\ Len(requests) < MaxArrivals
  /\ n_conversations + 2 * Len(requests) + 2 <= MaxArrivalConversations
  /\ \E phone \in Phones, m \in ArrivalInbound :
       /\ requests' = Append(requests,
                             Arrival(phone, m, "customer_queried",
                                     CustomerByPhone(customers, phone), 0))
       /\ last' = [Op("Customer.query") EXCEPT
                     !.phone = phone, !.message = m.message,
                     !.customer_id = CustomerByPhone(customers, phone)]
       /\ UNCHANGED <<customers, conversation_states, tickets, technicians,
                      n_conversations, n_status_history, n_session_history,
                      n_lost_history>>

\* _get_or_create_customer, lines 294-307.
CommitCustomer ==
  \E k \in DOMAIN requests :
  \E req \in {requests[k]} :
    /\ req.step = "customer_queried"
    /\ UNCHANGED <<conversation_states, tickets, technicians, n_conversations,
                   n_status_history, n_session_history, n_lost_history>>
    /\ IF req.customer_id = 0
         THEN \E has_account \in BOOLEAN :
              \E done \in {InsertCustomer(customers, req.phone, req.contact_name,
                                          has_account)} :
                IF done.raised
                  THEN /\ requests' = Without(requests, k)
                       /\ last' = Failed(req)
                       /\ UNCHANGED customers
                  ELSE /\ customers' = done.customers
                       /\ requests' = [requests EXCEPT ![k].step = "customer_ready",
                                                       ![k].customer_id = done.id]
                       /\ last' = [Op("Customer.insert") EXCEPT
                                     !.phone = req.phone, !.customer_id = done.id]
         ELSE /\ customers' =
                   IF /\ req.contact_name # "None"
                      /\ customers[req.customer_id].customer_name = "None"
                     THEN [customers EXCEPT
                             ![req.customer_id].customer_name = req.contact_name]
                     ELSE customers
              /\ requests' = [requests EXCEPT ![k].step = "customer_ready"]
              /\ last' = [Op("Customer.found") EXCEPT
                            !.phone = req.phone, !.customer_id = req.customer_id]

\* _get_conversation_state, line 311.
QueryState ==
  \E k \in DOMAIN requests :
  \E req \in {requests[k]} :
    /\ req.step = "customer_ready"
    /\ requests' = [requests EXCEPT
                      ![k].step = "state_queried",
                      ![k].state_id = StateByCustomer(conversation_states,
                                                      req.customer_id)]
    /\ last' = [Op("ConversationState.query") EXCEPT
                  !.phone = req.phone, !.customer_id = req.customer_id]
    /\ UNCHANGED <<customers, conversation_states, tickets, technicians,
                   n_conversations, n_status_history, n_session_history,
                   n_lost_history>>

\* _get_conversation_state, lines 313-322.
CommitState ==
  \E k \in DOMAIN requests :
  \E req \in {requests[k]} :
    /\ req.step = "state_queried"
    /\ UNCHANGED <<customers, tickets, technicians, n_conversations,
                   n_status_history, n_session_history, n_lost_history>>
    /\ IF req.state_id = 0
         THEN \E done \in {InsertState(conversation_states, req.customer_id)} :
                IF done.raised
                  THEN /\ requests' = Without(requests, k)
                       /\ last' = Failed(req)
                       /\ UNCHANGED conversation_states
                  ELSE /\ conversation_states' = done.states
                       /\ requests' = [requests EXCEPT ![k].step = "state_ready",
                                                       ![k].state_id = done.id]
                       /\ last' = [Op("ConversationState.insert") EXCEPT
                                     !.phone = req.phone,
                                     !.customer_id = req.customer_id]
         ELSE /\ requests' = [requests EXCEPT ![k].step = "state_ready"]
              /\ last' = [Op("ConversationState.found") EXCEPT
                            !.phone = req.phone, !.customer_id = req.customer_id]
              /\ UNCHANGED conversation_states

\* handle_incoming_message, lines 48-73.
FinishMessage ==
  \E k \in DOMAIN requests :
  \E req \in {requests[k]} :
    /\ req.step = "state_ready"
    /\ \E state \in {conversation_states[req.state_id]} :
       \E language \in {detect_language(req.message)} :
       \E custs \in {[customers EXCEPT ![req.customer_id].preferred_language = language]} :
       \E intent \in {classify_intent(req.message, state.current_step)} :
       \E random_part \in IF CreatesTicket(state, intent) THEN RandomParts ELSE {<<>>} :
       \E first \in IF CreatesTicket(state, intent) THEN AutoFirst(technicians) ELSE {0} :
       \E routed \in {route_message(custs, req.customer_id, state,
                                    StoreView(tickets, technicians), intent, req.message,
                                    extract_entities(req.message), req.message_type,
                                    req.media_id, generate_ticket_number(random_part),
                                    first)} :
       \E call \in {[Op("handle_incoming_message") EXCEPT
                       !.phone = req.phone, !.customer_id = req.customer_id,
                       !.message = req.message, !.message_type = req.message_type,
                       !.media_id = req.media_id, !.step = state.current_step,
                       !.intent = intent]} :
         /\ customers' = custs
         /\ requests' = Without(requests, k)
         /\ UNCHANGED <<n_session_history, n_lost_history>>
         /\ IF routed.raised
              THEN /\ n_conversations' = n_conversations + 1
                   /\ last' = [call EXCEPT !.raised = TRUE, !.ok = FALSE,
                                           !.status_code = ErrorStatus,
                                           !.response = Literal("IntegrityError")]
                   /\ UNCHANGED <<conversation_states, tickets, technicians,
                                  n_status_history>>
              ELSE /\ conversation_states' =
                        [conversation_states EXCEPT ![req.state_id] = routed.state]
                   /\ tickets' = routed.db.tickets
                   /\ technicians' = routed.db.technicians
                   /\ n_status_history' =
                        n_status_history + Len(routed.db.status_history)
                   /\ n_conversations' = n_conversations + 2
                   /\ last' = [call EXCEPT
                                 !.response = routed.response,
                                 !.result = routed.state.current_ticket_id,
                                 !.status_history = routed.db.status_history]

NextArrivals ==
  \/ QueryCustomer
  \/ CommitCustomer
  \/ QueryState
  \/ CommitState
  \/ FinishMessage

SpecArrivals ==
  Init /\ [][NextArrivals]_vars

(***************************************************************************)
(* One customer going through the complaint flow with texts and images of  *)
(* every kind: keywords of other intents, captions, media references.      *)
(***************************************************************************)

\* No inbound message is taken in SpecFlow once the conversations table holds
\* this many rows.
MaxFlowConversations == 18

\* "1", "Yes" and "cancel" typed as text, an image captioned "skip" and an
\* image captioned with the Arabic "no" (U+0644 U+0627), each with its media
\* id.
FlowInbound ==
  {[message |-> <<49>>, message_type |-> "text", media_id |-> "None",
    contact_name |-> "None"],
   [message |-> <<89, 101, 115>>, message_type |-> "text", media_id |-> "None",
    contact_name |-> "None"],
   [message |-> <<99, 97, 110, 99, 101, 108>>, message_type |-> "text",
    media_id |-> "None", contact_name |-> "None"],
   [message |-> <<115, 107, 105, 112>>, message_type |-> "image",
    media_id |-> "media-2", contact_name |-> "None"],
   [message |-> <<1604, 1575>>, message_type |-> "image", media_id |-> "media-1",
    contact_name |-> "None"]}

FlowMessage ==
  /\ n_conversations + 2 <= MaxFlowConversations
  /\ \E m \in FlowInbound :
       handle_incoming_message("+201001234567", m.message, m.message_type, m.media_id,
                               m.contact_name)

NextFlow ==
  FlowMessage

SpecFlow ==
  Init /\ [][NextFlow]_vars

(***************************************************************************)
(* The text functions of AIService applied to texts put together from a    *)
(* few words, in every conversation step.                                  *)
(***************************************************************************)

\* The texts of SpecText are made of at most this many words.
MaxWords == 2

\* "yes", "no", "Ok", "hi", "1", " ", and the Arabic "no" (U+0644 U+0627) and
\* "yes" (U+0646 U+0639 U+0645).
Words ==
  {<<121, 101, 115>>, <<110, 111>>, <<79, 107>>, <<104, 105>>, <<49>>, <<32>>,
   <<1604, 1575>>, <<1606, 1593, 1605>>}

RECURSIVE TextsOf(_)
TextsOf(n) ==
  IF n = 0 THEN {<<>>}
  ELSE LET shorter == TextsOf(n - 1)
       IN  shorter \cup {t \o w : t \in shorter, w \in Words}

\* ConversationStep
ConversationSteps ==
  {"idle", "greeting", "collecting_name", "collecting_product",
   "collecting_purchase_date", "collecting_quantity", "collecting_issue",
   "collecting_photos", "confirming_data", "awaiting_response"}

\* The text and the step that the functions are called with.
InitText ==
  \E message \in TextsOf(MaxWords), current_step \in ConversationSteps :
    /\ customers = <<>>
    /\ conversation_states = <<>>
    /\ tickets = <<>>
    /\ technicians = SeededTechnicians
    /\ n_conversations = 0
    /\ n_status_history = 0
    /\ n_session_history = 0
    /\ n_lost_history = 0
    /\ requests = <<>>
    /\ last = [Op("init") EXCEPT !.message = message, !.step = current_step]

ClassifyIntent ==
  /\ last' = [Op("classify_intent") EXCEPT
                !.message = last.message, !.step = last.step,
                !.intent = classify_intent(last.message, last.step)]
  /\ UNCHANGED <<customers, conversation_states, tickets, technicians,
                 n_conversations, n_status_history, n_session_history,
                 n_lost_history, requests>>

DetectLanguage ==
  /\ last' = [Op("detect_language") EXCEPT
                !.message = last.message, !.step = last.step,
                !.language = detect_language(last.message)]
  /\ UNCHANGED <<customers, conversation_states, tickets, technicians,
                 n_conversations, n_status_history, n_session_history,
                 n_lost_history, requests>>

NextText ==
  \/ ClassifyIntent
  \/ DetectLanguage

SpecText ==
  InitText /\ [][NextText]_vars

(***************************************************************************)
(* Properties of the conversation workflow                                 *)
(***************************************************************************)

\* The ConversationState row of a customer.
StateRowIn(states, customer_id) ==
  states[StateByCustomer(states, customer_id)]

StateRow(customer_id) ==
  StateRowIn(conversation_states, customer_id)

\* The step a message from phone finds: the step of the sender's row, IDLE
\* for a sender seen for the first time.
StepFound(phone) ==
  IF CustomerByPhone(customers, phone) = 0 THEN IDLE
  ELSE IF StateByCustomer(conversation_states, CustomerByPhone(customers, phone)) = 0 THEN IDLE
  ELSE StateRow(CustomerByPhone(customers, phone)).current_step

\* handle_incoming_message has just returned a response.
Handled ==
  last.op = "handle_incoming_message" /\ ~last.raised

\* The text carries one of the cancel keywords.
CarriesCancel(message) ==
  AnyKeyword(KeywordsOf("cancel"), strip(lower(message)))

\* C1: for every customer, after any sequence of inbound messages, the
\* conversation state holds no collected data whenever its step is IDLE.
C1_IdleHoldsNoData ==
  \A i \in 1..Len(conversation_states) :
    conversation_states[i].current_step = IDLE =>
      DOMAIN conversation_states[i].collected_data = {}

\* A customer who went through the whole collection is back at IDLE: the
\* data collected for the ticket has been cleared.
C1_Witness ==
  /\ Handled
  /\ last.step = CONFIRMING_DATA
  /\ last.intent = "confirm_yes"
  /\ StateRow(last.customer_id).current_step = IDLE
  /\ tickets[Len(tickets)].product_name # NoneStr

\* C2: at every step, a message carrying a cancel keyword resets the state
\* to IDLE with the collected data cleared, and the response is the
\* cancelled message.
C2_CancelResets ==
  (Handled /\ CarriesCancel(last.message)) =>
    /\ StateRow(last.customer_id).current_step = IDLE
    /\ DOMAIN StateRow(last.customer_id).collected_data = {}
    /\ last.response = get_cancelled(customers[last.customer_id].preferred_language)

C4_NewComplaintAsksProduct ==
  [][(last'.op = "handle_incoming_message" /\ ~last'.raised
        /\ StepFound(last'.phone) = IDLE
        /\ (last'.intent = "new_complaint" \/ last'.message = <<49>>)) =>
       /\ last'.intent = "new_complaint"
       /\ StateRowIn(conversation_states', last'.customer_id).current_step = COLLECTING_PRODUCT
       /\ DOMAIN StateRowIn(conversation_states', last'.customer_id).collected_data = {}
       /\ last'.response =
            get_ask_product(customers'[last'.customer_id].preferred_language)
    ]_vars

\* A customer seen for the first time has sent "1" and is asked for the product.
C4_Witness ==
  /\ Handled
  /\ last.message = <<49>>
  /\ last.intent = "new_complaint"
  /\ n_conversations = 2
  /\ StateRow(last.customer_id).current_step = COLLECTING_PRODUCT

\* C5: when a customer at COLLECTING_PRODUCT sends any message, the message
\* is stored verbatim as collected_data.product_name, the step becomes
\* COLLECTING_ISSUE and the response is the ask-issue prompt.
C5_ProductStoredVerbatim ==
  (Handled /\ last.step = COLLECTING_PRODUCT) =>
    /\ StateRow(last.customer_id).current_step = COLLECTING_ISSUE
    /\ DictGet(StateRow(last.customer_id).collected_data, "product_name", NoneStr)
         = last.message
    /\ last.response = get_ask_issue(customers[last.customer_id].preferred_language)

\* A customer at COLLECTING_PRODUCT has sent a keyword, "Yes": it is the product name.
C5_Witness ==
  /\ Handled
  /\ last.step = COLLECTING_PRODUCT
  /\ last.message = <<89, 101, 115>>
  /\ DictGet(StateRow(last.customer_id).collected_data, "product_name", NoneStr)
       = <<89, 101, 115>>

(***************************************************************************)
(* Properties of the ticket lifecycle                                      *)
(***************************************************************************)

\* handle_technical_decision has just recorded a decision on a ticket.
Decided(decision) ==
  /\ last.op = "handle_technical_decision"
  /\ last.decision = decision
  /\ last.ticket_id \in 1..Len(tickets)

\* The last operation ran the auto-assignment query and assigned the row it returned.
AutoAssigned ==
  /\ \/ last.op = "create_ticket" /\ ~last.raised
     \/ last.op = "assign_technician" /\ last.technician_id = 0 /\ last.result # 0
  /\ \E i \in 1..Len(last.status_history) :
       last.status_history[i].reason = "Assigned to technician"

\* C6: for every ticket, after any sequence of ticket-service operations,
\* completed_at is set if and only if status is COMPLETED.
C6_CompletedAtIffCompleted ==
  \A i \in 1..Len(tickets) :
    (tickets[i].completed_at # "None") <=> (tickets[i].status = COMPLETED)

\* C7: for every ticket, after any sequence of ticket-service operations,
\* compensation_type is set if and only if technical_decision is approved.
C7_CompensationIffApproved ==
  \A i \in 1..Len(tickets) :
    (tickets[i].compensation_type # "None") <=> (tickets[i].technical_decision = "approved")

\* C8: recording decision approved on a ticket routes it by the owning
\* customer's has_kapci_account flag: if true the ticket has compensation
\* type refund and status PENDING_FINANCE, otherwise compensation type
\* replacement and status PENDING_INVENTORY.
C8_ApprovedRoutedByAccount ==
  Decided("approved") =>
    LET ticket == tickets[last.ticket_id]
    IN  IF customers[ticket.customer_id].has_kapci_account
          THEN ticket.compensation_type = REFUND /\ ticket.status = PENDING_FINANCE
          ELSE ticket.compensation_type = REPLACEMENT /\ ticket.status = PENDING_INVENTORY

\* A ticket of the customer who holds a KAPCI account has been approved.
C8_Witness ==
  /\ Decided("approved")
  /\ customers[tickets[last.ticket_id].customer_id].has_kapci_account
  /\ tickets[last.ticket_id].compensation_type = REFUND

\* C9: handle_technical_decision with decision rejected on an existing
\* ticket sets the ticket's status to REJECTED and returns (True,
\* notification), the notification being the rejection message with the
\* ticket's number and the supplied reason.
C9_RejectedNotifies ==
  Decided("rejected") =>
    /\ tickets[last.ticket_id].status = REJECTED
    /\ last.ok
    /\ Len(last.response) = 1
    /\ last.response[1].key = "TICKET_REJECTED"
    /\ last.response[1].ticket_number = tickets[last.ticket_id].ticket_number
    /\ Truthy(last.notes) => last.response[1].reason = last.notes

\* A ticket has been rejected for the reason "thick".
C9_Witness ==
  /\ Decided("rejected")
  /\ last.notes = <<116, 104, 105, 99, 107>>
  /\ last.ok
  /\ tickets[last.ticket_id].status = REJECTED

\* C10: every technician's current_workload is >= 0, and an auto-assignment
\* never leaves the technician it chose with current_workload greater than
\* max_workload.
C10_WorkloadWithinBounds ==
  /\ \A t \in DOMAIN technicians : technicians[t].current_workload >= 0
  /\ AutoAssigned =>
       LET t == tickets[last.ticket_id].assigned_technician_id
       IN  technicians[t].current_workload <= technicians[t].max_workload

\* A ticket has been auto-assigned to a technician who is now at the limit,
\* while a direct assignment had put the other technician over its limit.
C10_Witness ==
  /\ AutoAssigned
  /\ last.op = "assign_technician"
  /\ LET t == tickets[last.ticket_id].assigned_technician_id
     IN  /\ technicians[t].current_workload = technicians[t].max_workload
         /\ \E u \in DOMAIN technicians \ {t} :
              technicians[u].current_workload > technicians[u].max_workload

\* The operations of the ticket lifecycle (update_status sets any status it is given).
LifecycleOps ==
  {"handle_technical_decision", "route_to_compensation", "process_finance_approval",
   "process_inventory_preparation", "complete_ticket"}

\* The rows the latest operation logged for a ticket.
LoggedFor(op, ticket_id) ==
  SelectSeq(op.status_history, LAMBDA row : row.ticket_id = ticket_id)

\* C11: every ticket-service operation that changes a ticket's status
\* appends exactly one TicketStatusHistory row, whose old_status is the
\* ticket's status immediately before the operation and whose new_status is
\* its status immediately after.
C11_StatusChangeLogged ==
  [][\A i \in 1..Len(tickets) :
       tickets'[i].status # tickets[i].status =>
         /\ Len(LoggedFor(last', i)) = 1
         /\ LoggedFor(last', i)[1].old_status = tickets[i].status
         /\ LoggedFor(last', i)[1].new_status = tickets'[i].status
    ]_vars

\* TKT-<4 digits>-<5 digits>
WellFormedNumber(ticket_number) ==
  /\ Len(ticket_number) = 14
  /\ SubSeq(ticket_number, 1, 4) = <<84, 75, 84, 45>>
  /\ \A j \in 5..8 : ticket_number[j] \in 48..57
  /\ ticket_number[9] = 45
  /\ \A j \in 10..14 : ticket_number[j] \in 48..57

\* C12: every ticket has a number of the form TKT-<4-digit year>-<5 digits>
\* and no two tickets share a number: a generated number that is already
\* stored is rejected, never stored twice.
C12_TicketNumbersUnique ==
  /\ \A i \in 1..Len(tickets) : WellFormedNumber(tickets[i].ticket_number)
  /\ \A i, j \in 1..Len(tickets) :
       i # j => tickets[i].ticket_number # tickets[j].ticket_number

\* create_ticket generated the number of a stored ticket: the commit failed
\* and the table is as it was.
C12_Witness ==
  /\ last.op = "create_ticket"
  /\ last.raised
  /\ Len(tickets) = 1

\* C13: REJECTED and CANCELLED are absorbing: once a ticket's status is
\* REJECTED or CANCELLED, no later lifecycle operation (record decision,
\* route to compensation, finance approval, inventory preparation, complete)
\* changes it.
C13_RejectedCancelledAbsorbing ==
  [][\A i \in 1..Len(tickets) :
       (tickets[i].status \in {REJECTED, "cancelled"} /\ last'.op \in LifecycleOps) =>
         tickets'[i].status = tickets[i].status
    ]_vars

\* A ticket enters a status: it has it after the step and had another before.
Enters(i, status) ==
  tickets'[i].status = status /\ tickets[i].status # status

\* C14: every status change made by the lifecycle operations follows an edge
\* of the lifecycle graph: FINANCE_APPROVED is entered only from
\* PENDING_FINANCE, INVENTORY_PREPARED only from PENDING_INVENTORY, and
\* PENDING_FINANCE or PENDING_INVENTORY only from PENDING_REVIEW or
\* UNDER_REVIEW, by an approval.
C14_LifecycleEdges ==
  [][\A i \in 1..Len(tickets) :
       last'.op \in LifecycleOps =>
         /\ Enters(i, FINANCE_APPROVED) => tickets[i].status = PENDING_FINANCE
         /\ Enters(i, INVENTORY_PREPARED) => tickets[i].status = PENDING_INVENTORY
         /\ (Enters(i, PENDING_FINANCE) \/ Enters(i, PENDING_INVENTORY)) =>
              /\ tickets[i].status \in {PENDING_REVIEW, "under_review"}
              /\ tickets'[i].technical_decision = "approved"
    ]_vars

\* The technician of a ticket in a table; 0 for a ticket that is not there.
AssignedIn(tks, i) ==
  IF i \in 1..Len(tks) THEN tks[i].assigned_technician_id ELSE 0

\* C17: the assignment of a ticket and the increment of the chosen
\* technician's current_workload reach the store together: no step gives a
\* ticket a technician without adding one to that technician's workload,
\* and none adds to a workload without assigning a ticket to the technician.
C17_AssignmentWithIncrement ==
  [][/\ \A i \in 1..Len(tickets') :
          AssignedIn(tickets', i) # AssignedIn(tickets, i) =>
            technicians'[AssignedIn(tickets', i)].current_workload
              = technicians[AssignedIn(tickets', i)].current_workload + 1
     /\ \A t \in DOMAIN technicians :
          technicians'[t].current_workload > technicians[t].current_workload =>
            /\ technicians'[t].current_workload = technicians[t].current_workload + 1
            /\ last'.op \in {"create_ticket", "assign_technician"}
            /\ AssignedIn(tickets', last'.ticket_id) = t
    ]_vars

\* A ticket has been assigned to the second technician by id: the ticket
\* names the technician and the technician's workload counts it.
C17_Witness ==
  /\ last.op = "assign_technician"
  /\ last.technician_id = 2
  /\ last.result # 0
  /\ tickets[last.ticket_id].assigned_technician_id = 2
  /\ technicians[2].current_workload >= 1

\* C19: create_ticket and update_status leave no ticket status committed
\* without its TicketStatusHistory row: when they return, every row they
\* logged for a status has been committed.
C19_StatusCommittedWithHistory ==
  (last.op \in {"create_ticket", "update_status"} /\ last.result # 0) =>
    \A k \in 1..Len(last.status_history) :
      last.status_history[k].new_status # "None" =>
        k <= Len(last.status_history) - last.uncommitted

\* C20: in handle_technical_decision a failed send of the notification
\* neither undoes nor prevents the decision: the ticket keeps the recorded
\* decision and its status, the call returns (True, notification), and the
\* notification is saved as an outbound conversation row whether or not it
\* was sent.
C20_DecisionSurvivesSendFailure ==
  Decided(last.decision) =>
    LET ticket == tickets[last.ticket_id]
    IN  /\ last.ok
        /\ ticket.technical_decision = last.decision
        /\ ticket.technical_notes = last.notes
        /\ ticket.status =
             IF last.decision = "rejected" THEN REJECTED
             ELSE IF customers[ticket.customer_id].has_kapci_account THEN PENDING_FINANCE
             ELSE PENDING_INVENTORY
        /\ Len(last.response) = 1
        /\ last.response[1].ticket_number = ticket.ticket_number
        /\ last.conversations =
             <<Conversation(ticket.customer_id, "outbound", last.response, "text")>>

\* A decision has been recorded and the notification could not be sent.
C20_Witness ==
  /\ Decided("approved")
  /\ ~last.sent
  /\ last.ok
  /\ Len(last.conversations) = 1
  /\ tickets[last.ticket_id].technical_decision = "approved"

(***************************************************************************)
(* Properties of the requests served in parallel                           *)
(***************************************************************************)

\* The customer rows of a phone number.
OfPhone(custs, phone) ==
  {i \in 1..Len(custs) : custs[i].phone_number = phone}

\* C15: two inbound messages of one customer are processed one after the
\* other: no request that loaded the same current_step and collected_data as
\* another request of its customer writes its own current_step or
\* collected_data over the row that the other request has written since.
C15_SameCustomerSerialized ==
  [][(last'.op = "handle_incoming_message.route" /\ last'.raced)
       => \A s \in DOMAIN conversation_states :
            /\ conversation_states'[s].current_step = conversation_states[s].current_step
            /\ conversation_states'[s].collected_data =
                  conversation_states[s].collected_data]_vars

\* C16: a step of handle_incoming_message for the customer of one phone number
\* leaves the rows of every other customer as they were: the Customer row
\* with its preferred language, the ConversationState row, the tickets, and
\* it adds no ticket and no state row to another customer.
C16_OtherCustomersUntouched ==
  [][\A i \in 1..Len(customers) :
       i \notin OfPhone(customers, last'.phone)
         => /\ customers'[i] = customers[i]
            /\ \A s \in 1..Len(conversation_states') :
                 conversation_states'[s].customer_id = i
                   => /\ s <= Len(conversation_states)
                      /\ conversation_states'[s] = conversation_states[s]
            /\ \A t \in 1..Len(tickets') :
                 tickets'[t].customer_id = i
                   => /\ t <= Len(tickets)
                      /\ tickets'[t] = tickets[t]]_vars

\* A request of the second customer has been routed into a new step while a
\* request of the first customer, who is in the middle of a complaint, is in
\* flight.
C16_Witness ==
  /\ last.op = "handle_incoming_message.route"
  /\ last.customer_id = 2
  /\ StateRow(2).current_step # last.step
  /\ StateRow(1).current_step = COLLECTING_ISSUE
  /\ \E k \in DOMAIN requests : requests[k].customer_id = 1

\* C18: when auto-assignments run in parallel, the commit of each assignment
\* raises the current_workload of the technician it chose by exactly one over
\* the value stored before it (no update is lost), and leaves no technician
\* with a current_workload above its max_workload.
C18_ParallelAssignmentsCounted ==
  [][(last'.op = "assign_technician.commit" /\ last'.technician_id # 0)
       => /\ technicians'[last'.technician_id].current_workload =
               technicians[last'.technician_id].current_workload + 1
          /\ \A t \in DOMAIN technicians :
               technicians'[t].current_workload <= technicians'[t].max_workload]_vars

(***************************************************************************)
(* Properties of the error handling                                        *)
(***************************************************************************)

\* The operations the routes call with a ticket id from the URL.
TicketRoutes ==
  {"assign_technician", "handle_technical_decision", "complete_ticket"}

\* The tables a call on a ticket can write are as they were.
StoreUntouched ==
  /\ tickets' = tickets
  /\ technicians' = technicians
  /\ n_status_history' = n_status_history
  /\ n_session_history' = n_session_history
  /\ n_conversations' = n_conversations

\* C21: assign, record-decision and complete on a ticket id that matches no
\* ticket report not-found (the service returns None, handle_technical_decision
\* returns (False, 'Ticket not found'), the route answers 404) and change no
\* ticket, no technician workload, no history row and no conversation row.
C21_MissingTicketReported ==
  [][(last'.op \in TicketRoutes /\ last'.ticket_id \notin 1..Len(tickets))
       => /\ ~last'.ok
          /\ last'.result = 0
          /\ last'.status_code = 404
          /\ last'.op = "handle_technical_decision"
               => last'.response = Literal("Ticket not found")
          /\ StoreUntouched]_vars

\* A decision has been posted for a ticket id that matches no ticket while a
\* ticket is stored.
C21_Witness ==
  /\ last.op = "handle_technical_decision"
  /\ last.status_code = 404
  /\ Len(tickets) >= 1
  /\ last.ticket_id = Len(tickets) + 1

\* C22: assign_technician called for a stored ticket with a technician id
\* that matches no technician reports not-found; it does not return as a
\* successful assignment.
C22_UnknownTechnicianReported ==
  (/\ last.op = "assign_technician"
   /\ last.ticket_id \in 1..Len(tickets)
   /\ last.technician_id # 0
   /\ last.technician_id \notin DOMAIN technicians)
    => /\ ~last.ok
       /\ last.status_code = 404

HasKeyword(intent, message) ==
  \E k \in 1..Len(KeywordsOf(intent)) : Contains(KeywordsOf(intent)[k], lower(message))

\* C24: classify_intent returns provide_info for every text when current_step
\* is collecting_product, collecting_issue, collecting_name,
\* collecting_purchase_date or collecting_quantity, whatever keywords the text
\* holds.
C24_FreeFormStepsProvideInfo ==
  (/\ last.op = "classify_intent"
   /\ last.step \in {"collecting_product", "collecting_issue", "collecting_name",
                      "collecting_purchase_date", "collecting_quantity"})
    => last.intent = "provide_info"

\* A text with a greeting keyword and a confirm keyword has been classified
\* in collecting_quantity.
C24_Witness ==
  /\ last.op = "classify_intent"
  /\ last.step = "collecting_quantity"
  /\ HasKeyword("greeting", last.message)
  /\ HasKeyword("confirm_yes", last.message)

\* C25: in confirming_data classify_intent returns confirm_yes when the text
\* holds a yes-keyword, else confirm_no when it holds a no-keyword, else
\* unknown, and nothing else.
C25_ConfirmingYesNoUnknown ==
  (last.op = "classify_intent" /\ last.step = "confirming_data")
    => last.intent = IF HasKeyword("confirm_yes", last.message) THEN "confirm_yes"
                     ELSE IF HasKeyword("confirm_no", last.message) THEN "confirm_no"
                     ELSE "unknown"

\* A text with a no-keyword in front of a yes-keyword has been classified in
\* confirming_data.
C25_Witness ==
  /\ last.op = "classify_intent"
  /\ last.step = "confirming_data"
  /\ last.message = <<110, 111, 121, 101, 115>>
  /\ last.intent = "confirm_yes"

\* Characters U+0600..U+06FF of a text.
ArabicCount(message) ==
  Cardinality({i \in 1..Len(message) : message[i] >= 1536 /\ message[i] <= 1791})

\* Letters a-z and A-Z of a text.
LatinCount(message) ==
  Cardinality({i \in 1..Len(message) :
                 \/ message[i] >= 97 /\ message[i] <= 122
                 \/ message[i] >= 65 /\ message[i] <= 90})

\* C26: detect_language returns ar when the text has at least as many
\* Arabic-script characters as Latin letters (ties included, and a text with
\* neither), and en only when the Latin letters are strictly more.
C26_ArabicWinsTies ==
  last.op = "detect_language"
    => last.language = IF ArabicCount(last.message) >= LatinCount(last.message)
                         THEN "ar" ELSE "en"

\* C27: a chat call whose message is empty or only whitespace is refused with
\* status 400 before the orchestrator runs: the step creates or changes no
\* customer, conversation state or conversation row.
C27_EmptyChatRefused ==
  [][(/\ last'.op \in {"chat", "handle_incoming_message"}
      /\ strip(last'.message) = <<>>)
       => /\ last'.op = "chat"
          /\ last'.status_code = 400
          /\ ~last'.ok
          /\ last'.conversations = <<>>
          /\ UNCHANGED <<customers, conversation_states, n_conversations>>]_vars

\* A message of blanks has been refused for a phone number whose customer is
\* in the middle of a complaint.
C27_Witness ==
  /\ last.op = "chat"
  /\ last.message = <<32, 32>>
  /\ last.status_code = 400
  /\ \E c \in DOMAIN customers :
       /\ customers[c].phone_number = last.phone
       /\ \E st \in DOMAIN conversation_states :
            /\ conversation_states[st].customer_id = c
            /\ conversation_states[st].current_step # IDLE

\* C28: when handling a conversational inbound message raises an error that
\* is not handled, the customer gets the unknown/menu response: not an error
\* payload, and not silence.
C28_UnhandledErrorDegradesToMenu ==
  (last.op = "handle_incoming_message" /\ last.raised)
    => /\ last.status_code = 200
       /\ \E lang \in {"ar", "en"} : last.response = get_unknown(lang)

\* The tickets with a ticket number.
Numbered(tks, ticket_number) ==
  {i \in DOMAIN tks : tks[i].ticket_number = ticket_number}

\* The tickets of a customer.
TicketsOf(tks, customer_id) ==
  {i \in DOMAIN tks : tks[i].customer_id = customer_id}

\* The step was a status check from IDLE.
StatusCheck ==
  /\ last'.op = "handle_incoming_message"
  /\ last'.step = IDLE
  /\ last'.intent = "check_status"

\* C29: a status check from IDLE looks the ticket up by the ticket number of
\* the message when it has one, otherwise takes the customer's most recently
\* created ticket; it answers with the status summary of the ticket found and
\* with the no-tickets response (not an error) when none is found, and leaves
\* the conversation state at IDLE and every ticket as it was.
C29_StatusCheckFromIdle ==
  [][StatusCheck =>
       \E number \in {extract_entities(last'.message).ticket_number} :
       \E found \in {IF number # NoneStr THEN Numbered(tickets, number)
                      ELSE {i \in TicketsOf(tickets, last'.customer_id) :
                              \A j \in TicketsOf(tickets, last'.customer_id) : j <= i}} :
       \E lang \in {customers'[last'.customer_id].preferred_language} :
         /\ ~last'.raised
         /\ last'.status_code = 200
         /\ found = {} => last'.response = get_no_tickets(lang)
         /\ \A i \in found : last'.response = get_ticket_status(tickets[i], lang)
         /\ \A st \in DOMAIN conversation_states' :
              conversation_states'[st].customer_id = last'.customer_id
                => conversation_states'[st].current_step = IDLE
         /\ UNCHANGED <<tickets, technicians, n_status_history>>]_vars

\* A customer with a ticket of their own has asked for a ticket number that no
\* ticket has and was told that there are no tickets.
C29_Witness ==
  /\ last.op = "handle_incoming_message"
  /\ last.step = IDLE
  /\ last.intent = "check_status"
  /\ extract_entities(last.message).ticket_number # NoneStr
  /\ Numbered(tickets, extract_entities(last.message).ticket_number) = {}
  /\ TicketsOf(tickets, last.customer_id) # {}
  /\ \E lang \in {"ar", "en"} : last.response = get_no_tickets(lang)

(***************************************************************************)
(* Properties of the customer and state rows                               *)
(***************************************************************************)

\* The customers with a phone number.
CustomersOf(phone) ==
  {c \in DOMAIN customers : customers[c].phone_number = phone}

\* The conversation states of a customer.
StatesOf(customer_id) ==
  {st \in DOMAIN conversation_states :
     conversation_states[st].customer_id = customer_id}

\* C30: whatever the order and the interleaving of the inbound messages, two
\* first messages of one unseen phone number included, no phone number has
\* two customers and no customer two conversation states, and when every
\* request has ended the phone number of the last one has exactly one
\* customer and every customer exactly one conversation state.
C30_OneCustomerOneState ==
  /\ \A phone \in Phones : Cardinality(CustomersOf(phone)) <= 1
  /\ \A c \in DOMAIN customers : Cardinality(StatesOf(c)) <= 1
  /\ (requests = <<>> /\ last.op = "handle_incoming_message")
       => /\ Cardinality(CustomersOf(last.phone)) = 1
          /\ \A c \in DOMAIN customers : Cardinality(StatesOf(c)) = 1

\* Two first messages of one phone number have raced: the INSERT of the
\* second was refused, the first has been answered, and no request is left.
C30_Witness ==
  /\ requests = <<>>
  /\ last.op = "handle_incoming_message"
  /\ last.raised
  /\ last.customer_id = 0
  /\ Len(customers) = 1
  /\ Cardinality(StatesOf(1)) = 1
  /\ n_conversations = 2

(***************************************************************************)
(* Properties of the workload and the assignment                           *)
(***************************************************************************)

\* C31: after any sequence of create_ticket, assign_technician and
\* record_technical_decision calls, a ticket assigned again and a decision
\* recorded twice included, each technician's current_workload is the number
\* of tickets assigned to that technician whose technical decision has not
\* been recorded.
C31_WorkloadCountsOpenAssignments ==
  \A t \in DOMAIN technicians :
    technicians[t].current_workload =
      Cardinality({i \in DOMAIN tickets :
                     /\ tickets[i].assigned_technician_id = t
                     /\ tickets[i].technical_decision = "pending"})

\* C32: assign_technician without a technician id gives the ticket to an
\* active technician below max_workload whose current_workload is least among
\* such technicians and adds one to that workload; when there is no such
\* technician the ticket and every workload stay as they were and the ticket
\* is still returned, without error.
C32_AutoAssignLeastLoaded ==
  [][(/\ last'.op = "assign_technician"
      /\ last'.technician_id = 0
      /\ last'.ticket_id \in DOMAIN tickets)
       => LET eligible == {t \in DOMAIN technicians :
                             /\ technicians[t].is_active
                             /\ technicians[t].current_workload
                                  < technicians[t].max_workload}
              chosen == tickets'[last'.ticket_id].assigned_technician_id
          IN  /\ last'.result = last'.ticket_id
              /\ last'.ok /\ ~last'.raised /\ last'.status_code = 200
              /\ IF eligible = {}
                   THEN UNCHANGED <<tickets, technicians>>
                   ELSE /\ chosen \in eligible
                        /\ \A u \in eligible :
                             technicians[chosen].current_workload
                               <= technicians[u].current_workload
                        /\ technicians' =
                             [technicians EXCEPT
                                ![chosen].current_workload = @ + 1]
                        /\ tickets' =
                             [tickets EXCEPT
                                ![last'.ticket_id].assigned_technician_id = chosen]]_vars

\* A ticket has been auto-assigned to a technician while another active
\* technician below its limit carried more tickets.
C32_Witness ==
  /\ last.op = "assign_technician"
  /\ last.technician_id = 0
  /\ last.result # 0
  /\ \E t \in DOMAIN technicians, u \in DOMAIN technicians :
       /\ tickets[last.ticket_id].assigned_technician_id = t
       /\ u # t
       /\ technicians[u].is_active
       /\ technicians[u].current_workload < technicians[u].max_workload
       /\ technicians[u].current_workload > technicians[t].current_workload - 1

(***************************************************************************)
(* Properties of the complaint flow                                        *)
(***************************************************************************)

\* The step handled a message that found its sender at the given step.
HandledAt(step) ==
  /\ last'.op = "handle_incoming_message"
  /\ ~last'.raised
  /\ last'.step = step

KeysAt(step) ==
  IF step = COLLECTING_ISSUE THEN {"product_name"}
  ELSE IF step = COLLECTING_PHOTOS
    THEN {"product_name", "issue_description", "issue_category"}
  ELSE IF step = CONFIRMING_DATA
    THEN {"product_name", "issue_description", "issue_category", "photos"}
  ELSE {}

\* C34: a message classified confirm_no at CONFIRMING_DATA creates no ticket,
\* clears collected_data, moves the step to COLLECTING_PRODUCT and is answered
\* with the restart message followed by the ask-product prompt; nothing
\* collected before the restart reaches a later ticket: the conversation
\* holds, at every step, only what the messages since the restart have
\* written, and a ticket is made of what the conversation holds.
C34_ConfirmNoRestarts ==
  [][/\ (HandledAt(CONFIRMING_DATA) /\ last'.intent = "confirm_no") =>
          \E after \in {conversation_states'[StateByCustomer(conversation_states',
                                                            last'.customer_id)]} :
            /\ tickets' = tickets
            /\ after.collected_data = EmptyDict
            /\ after.current_step = COLLECTING_PRODUCT
            /\ last'.response =
                 get_restart(customers'[last'.customer_id].preferred_language)
                   \o get_ask_product(customers'[last'.customer_id].preferred_language)
     /\ \A st \in DOMAIN conversation_states' :
          DOMAIN conversation_states'[st].collected_data
            = KeysAt(conversation_states'[st].current_step)
     /\ \A i \in DOMAIN tickets' \ DOMAIN tickets :
          \E before \in {conversation_states[StateByCustomer(conversation_states,
                                                            tickets'[i].customer_id)]} :
            /\ before.current_step = CONFIRMING_DATA
            /\ tickets'[i].product_name = before.collected_data["product_name"]
            /\ tickets'[i].issue_description = before.collected_data["issue_description"]
            /\ tickets'[i].issue_category = before.collected_data["issue_category"]
            /\ tickets'[i].photos = before.collected_data["photos"]]_vars

\* The customer has answered the summary of a complaint with a photo with the
\* Arabic "no": the conversation is back at COLLECTING_PRODUCT and holds
\* nothing.
C34_Witness ==
  /\ last.op = "handle_incoming_message"
  /\ last.step = CONFIRMING_DATA
  /\ last.intent = "confirm_no"
  /\ last.message = <<1604, 1575>>
  /\ tickets = <<>>
  /\ conversation_states[1].current_step = COLLECTING_PRODUCT
  /\ conversation_states[1].collected_data = EmptyDict

\* C35: a message at CONFIRMING_DATA that is classified neither confirm_yes
\* nor confirm_no is answered with the confirmation prompt; current_step,
\* collected_data and current_ticket_id stay as they were and no ticket is
\* created.
C35_OtherAnswerAsksAgain ==
  [][(HandledAt(CONFIRMING_DATA) /\ last'.intent \notin {"confirm_yes", "confirm_no"}) =>
       /\ last'.response =
            get_confirm_prompt(customers'[last'.customer_id].preferred_language)
       /\ conversation_states' = conversation_states
       /\ conversation_states[StateByCustomer(conversation_states,
                                              last'.customer_id)].current_step
            = CONFIRMING_DATA
       /\ UNCHANGED <<tickets, technicians, n_status_history>>]_vars

\* The customer has answered the summary with "cancel": the prompt was sent
\* again and the conversation is still at CONFIRMING_DATA with its data.
C35_Witness ==
  /\ last.op = "handle_incoming_message"
  /\ last.step = CONFIRMING_DATA
  /\ last.intent = "unknown"
  /\ last.message = <<99, 97, 110, 99, 101, 108>>
  /\ conversation_states[1].current_step = CONFIRMING_DATA
  /\ "product_name" \in DOMAIN conversation_states[1].collected_data

\* C36: after any sequence of inbound messages every customer's current_step
\* is IDLE, COLLECTING_PRODUCT, COLLECTING_ISSUE, COLLECTING_PHOTOS or
\* CONFIRMING_DATA: GREETING, COLLECTING_NAME, COLLECTING_PURCHASE_DATE,
\* COLLECTING_QUANTITY and AWAITING_RESPONSE are never entered.
C36_OnlyFiveSteps ==
  \A st \in DOMAIN conversation_states :
    /\ conversation_states[st].current_step
         \in {IDLE, COLLECTING_PRODUCT, COLLECTING_ISSUE, COLLECTING_PHOTOS,
              CONFIRMING_DATA}
    /\ conversation_states[st].current_step
         \notin {"greeting", "collecting_name", "collecting_purchase_date",
                 "collecting_quantity", "awaiting_response"}

\* The customer has filed one complaint and is at the summary of the next:
\* the conversation has been through every step of the flow, IDLE twice.
C36_Witness ==
  /\ last.op = "handle_incoming_message"
  /\ Len(tickets) = 1
  /\ conversation_states[1].current_step = CONFIRMING_DATA
  /\ conversation_states[1].current_ticket_id = 1

(***************************************************************************)
(* Properties of the conversation history                                  *)
(***************************************************************************)

\* C37: every inbound message handle_incoming_message classifies and routes
\* has been saved as an inbound conversation row first, and the row stays
\* when the routing or the ticket creation fails; a message handled without
\* failure adds exactly two rows of its customer, the inbound row and then
\* the outbound row of the response.
C37_InboundAlwaysSaved ==
  [][last'.op = "handle_incoming_message" =>
       \E inbound \in {Conversation(last'.customer_id, "inbound", last'.message,
                                    last'.message_type)} :
       \E outbound \in {Conversation(last'.customer_id, "outbound", last'.response,
                                     "text")} :
         /\ last'.customer_id \in DOMAIN customers'
         /\ customers'[last'.customer_id].phone_number = last'.phone
         /\ IF last'.raised
              THEN /\ last'.conversations = <<inbound>>
                   /\ n_conversations' = n_conversations + 1
              ELSE /\ last'.conversations = <<inbound, outbound>>
                   /\ n_conversations' = n_conversations + 2]_vars

\* The ticket of a second complaint could not be created: the "Yes" that
\* asked for it is in the history, without a response.
C37_Witness ==
  /\ last.op = "handle_incoming_message"
  /\ last.raised
  /\ last.step = CONFIRMING_DATA
  /\ Len(last.conversations) = 1
  /\ last.conversations[1].direction = "inbound"
  /\ last.conversations[1].content = <<89, 101, 115>>
  /\ Len(tickets) = 1

\* C38: a customer's current_step goes from a step other than IDLE to IDLE
\* only in a message that creates a ticket for that customer, confirm_yes at
\* CONFIRMING_DATA: every other message that finds the customer at
\* COLLECTING_PRODUCT, COLLECTING_ISSUE, COLLECTING_PHOTOS or CONFIRMING_DATA
\* leaves a step other than IDLE.
C38_IdleOnlyThroughTicket ==
  [][\A st \in DOMAIN conversation_states :
       (/\ conversation_states[st].current_step # IDLE
        /\ conversation_states'[st].current_step = IDLE)
         => /\ last'.op = "handle_incoming_message"
            /\ last'.customer_id = conversation_states[st].customer_id
            /\ last'.step = CONFIRMING_DATA
            /\ conversation_states[st].current_step = CONFIRMING_DATA
            /\ last'.intent = "confirm_yes"
            /\ Len(tickets') = Len(tickets) + 1
            /\ tickets'[Len(tickets')].customer_id = conversation_states[st].customer_id
            /\ conversation_states'[st].current_ticket_id = Len(tickets')]_vars

\* A ticket has been created and the conversation is at IDLE again; "cancel"
\* sent as the product and as the issue had not ended the complaint and is
\* what the ticket holds.
C38_Witness ==
  /\ last.op = "handle_incoming_message"
  /\ ~last.raised
  /\ last.step = CONFIRMING_DATA
  /\ last.intent = "confirm_yes"
  /\ conversation_states[1].current_step = IDLE
  /\ conversation_states[1].current_ticket_id = 1
  /\ \E i \in DOMAIN tickets :
       /\ tickets[i].product_name = <<99, 97, 110, 99, 101, 108>>
       /\ tickets[i].issue_description = <<99, 97, 110, 99, 101, 108>>

\* C39: from COLLECTING_PRODUCT the conversation is at CONFIRMING_DATA after
\* exactly three more inbound messages of the customer, whatever their text,
\* type or keywords: each message moves COLLECTING_PRODUCT to
\* COLLECTING_ISSUE, COLLECTING_ISSUE to COLLECTING_PHOTOS and
\* COLLECTING_PHOTOS to CONFIRMING_DATA, no step twice and none left out.
C39_ThreeMessagesToSummary ==
  [][\A step \in {COLLECTING_PRODUCT, COLLECTING_ISSUE, COLLECTING_PHOTOS} :
       (last'.op = "handle_incoming_message" /\ last'.step = step) =>
         /\ ~last'.raised
         /\ conversation_states[StateByCustomer(conversation_states,
                                                last'.customer_id)].current_step = step
         /\ conversation_states'[StateByCustomer(conversation_states',
                                                 last'.customer_id)].current_step
              = IF step = COLLECTING_PRODUCT THEN COLLECTING_ISSUE
                ELSE IF step = COLLECTING_ISSUE THEN COLLECTING_PHOTOS
                ELSE CONFIRMING_DATA]_vars

\* The summary has been reached with the three messages "cancel", the image
\* captioned "skip" and "1": a cancel keyword as the product, a skip keyword
\* and an image as the issue, a new-complaint keyword at the photos.
C39_Witness ==
  /\ last.op = "handle_incoming_message"
  /\ last.step = COLLECTING_PHOTOS
  /\ last.message = <<49>>
  /\ conversation_states[1].current_step = CONFIRMING_DATA
  /\ conversation_states[1].collected_data["product_name"] = <<99, 97, 110, 99, 101, 108>>
  /\ conversation_states[1].collected_data["issue_description"] = <<115, 107, 105, 112>>
  /\ n_conversations = 8

\* The tickets of a customer, in the order of their creation: what the
\* tickets table holds when the tickets of every other customer are left out.
OwnTickets(tks, customer_id) ==
  LET Own(ticket) == ticket.customer_id = customer_id
  IN  SelectSeq(tks, Own)

\* C40: the response of a status check from IDLE describes only a ticket of
\* the customer who asked: it is the response the same message gets when the
\* tickets of every other customer are left out of the tickets table, also
\* when the message quotes a ticket number.
C40_StatusOfOwnTicketsOnly ==
  [][StatusCheck =>
       last'.response =
         handle_status_check(OwnTickets(tickets, last'.customer_id),
                             last'.customer_id,
                             extract_entities(last'.message),
                             customers'[last'.customer_id].preferred_language)]_vars

====
